---- MODULE Spec2Model ----
(***************************************************************************)
(* Model of the Google Meet bot session (src/src/bots/GoogleMeetBot.ts):   *)
(* join / joinMeeting, the lobby wait (waitAtLobbyPromise) and the         *)
(* in-page recorder with its stop routine and monitors.                    *)
(*                                                                         *)
(* One action is one run-to-completion step of the event loop: the code    *)
(* between two awaits of join, or one timer / interval callback.           *)
(***************************************************************************)
EXTENDS Integers, Sequences, FiniteSets, TLC

\* ------------------------------------------------------------------ bounds
\* number of 20s intervals that fit in wanderingTime (config.joinWaitTime)
JoinWaitPolls == 5
\* lobby polls whose awaits have not returned yet
MaxInFlight == 2
\* buttons with a "People" aria-label that a page snapshot holds
MaxButtons == 1
\* largest participant number a label shows
MaxCount == 1

\* number of 100ms samples in inactivityLimit (config.inactivityLimit)
InactivityLimitSamples == 3
\* largest participant number the presence monitor reads
MaxContributors == 2

\* most runs on which the action of a retry fails before it succeeds
MaxFailures == 3
\* largest maxAttempts a retry is called with
MaxRetryAttempts == 3

\* number of 2s submission checks the capture path is followed for
MaxChecks == 5
\* calls of __processAudioChunk that have not returned yet
MaxPending == 2
\* calls of __triggerBotResponse that have not returned yet
MaxResponses == 2
\* longest content of a completion of the response provider, in characters
MaxContent == 3
\* calls of the host bridge that are followed
MaxBridgeCalls == 4
\* runs of the page-validity check that are followed
MaxPageChecks == 3
\* the most "Got it" buttons visible at once
MaxVisible == 2
\* gotItButtonsClicked, which is only logged, is counted up to this
MaxClicked == 8
\* calls of speakInMeeting that can be under way together
MaxSpeakCalls == 3
\* the longest audio buffer given to transcribe, in bytes
MaxBuffer == 4
\* live connections created in all
MaxConnections == 3
\* buffers sent over live connections in all
MaxSends == 1

\* --------------------------------------------------------- program constants
\* maxDetectionFailures of detectLoneParticipantResilient
maxDetectionFailures == 10
\* maxDismissModalErrorCount of detectModalsAndDismiss
maxDismissModalErrorCount == 10
\* the delay of the presence monitor's setTimeout(check, 5000), in ms
LoneTestDelayMs == 5000
\* silenceThreshold of detectIncrediblySilentMeeting
silenceThreshold == 10
\* the period of monitorSilence, in ms: setTimeout(monitorSilence, 100)
SampleMs == 100
\* config.inactivityLimit * 60 * 1000, in ms
inactivityLimit == InactivityLimitSamples * SampleMs
\* the waitMs the retries of joinMeeting are called with
RetryWaitMs == 15000
\* bufferSize of createScriptProcessor, in samples
bufferSize == 4096
\* sampleRate of the capture AudioContext, in Hz
sampleRate == 16000
\* minSamples of transcriptionInterval: 2 seconds at 16kHz
minSamples == 32000
\* the period of transcriptionInterval, in ms
CheckMs == 2000
\* the least time between two submissions, in ms
MinGapMs == 5000
\* how long ago the last audio activity may be for a submission, in ms
ActivityWindowMs == 5000
\* the delay after a response before isSpeaking is cleared, in ms
CooldownMs == 10000
\* maxRetries of startRemoteAudioTranscription
maxRetries == 10
\* the wait before the first attempt to capture remote audio and between two
\* attempts, in ms
RetryCaptureMs == 5000
\* Date.now() when the capture is set up, in ms; times are counted from it,
\* so that lastTranscriptionTime = 0 lies this far in the past
EpochMs == 1000000
\* setInterval(..., 20000) of the lobby wait, in seconds
PollIntervalSec == 20
\* the attempt argument of new WaitingAtLobbyRetryError(..., 2)
LobbyAttempt == 2

VARIABLES
  pc,          \* where join / joinMeeting is suspended
  state,       \* _state: the status history of join
  reported,    \* the histories handed to patchBotStatus, in order
  error,       \* the error caught by join's catch (NoError before)
  thrown,      \* the error join has thrown (NoError before)
  uploadResult,\* what handleUpload returned: none, true, false, throws
  bodyText,    \* document.body.innerText read after a failed wait
  handlers,    \* the error handlers invoked, in order
  browserOpen, \* the browser of this.page is open
  waiting,     \* waitAtLobbyPromise: "pending", "true" or "false"
  waitTimeout, \* the setTimeout of the lobby wait is armed
  waitInterval,\* the setInterval of the lobby wait is armed
  elapsed,     \* seconds since the timers of the lobby wait were armed
  polls,       \* how many runs of the interval callback have started
  inFlight,    \* the runs that have not returned: number n, start time at
  outcome,     \* which branch settled the wait: Admitted, Denied, TimedOut
  gate,        \* history of the lobby wait kept for the properties
  rec,         \* the in-page recorder, its timers and the host's waitingPromise
  googleMeetPageStatus, \* the result of verifyItIsOnGoogleMeetPage, while in use
  retry,       \* one call of retryActionWithWait
  cap,         \* the capture path of startVoiceActivatedListening
  speak,       \* the last call of speakInMeeting by joinMeeting, while in use
  deepgram,    \* the live transcription connection of the bot
  respond,     \* one call of __triggerBotResponse on the host
  bridge,      \* the host side of screenAppSendData and screenAppMeetEnd
  validity,    \* the page-validity check, followed on its own
  gotIt,       \* the loop over the "Got it" buttons, followed on its own
  tts,         \* overlapping calls of speakInMeeting, followed on their own
  stt,         \* one call of __processAudioChunk, followed on its own
  live         \* the registry of live connections, followed on its own

joinVars == <<pc, state, reported, error, thrown, uploadResult, googleMeetPageStatus, bodyText,
              handlers, browserOpen>>
gateVars == <<waiting, waitTimeout, waitInterval, elapsed, polls, inFlight, outcome, gate>>
\* the state of the components that are checked on their own
sideVars == <<retry, cap, speak, deepgram, respond, bridge, validity, gotIt, tts, stt, live>>
vars == <<pc, state, reported, error, thrown, uploadResult, googleMeetPageStatus, bodyText,
          handlers, browserOpen,
          waiting, waitTimeout, waitInterval, elapsed, polls, inFlight, outcome, gate, rec,
          retry, cap, speak, deepgram, respond, bridge, validity, gotIt, tts, stt, live>>

\* ------------------------------------------------------------------- errors
NoError == [kind |-> "none", retryable |-> FALSE, attempt |-> 0]
PlainError == [kind |-> "Error", retryable |-> FALSE, attempt |-> 0]
UnsupportedMeetingError == [kind |-> "UnsupportedMeetingError", retryable |-> FALSE, attempt |-> 0]
WaitingAtLobbyRetryError(retryable, attempt) ==
  [kind |-> "WaitingAtLobbyRetryError", retryable |-> retryable, attempt |-> attempt]

\* ------------------------------------------------------- sequences helpers
includes(s, x) == \E i \in 1..Len(s) : s[i] = x

indexOf(s, x) == CHOOSE i \in 1..Len(s) : s[i] = x /\ \A j \in 1..(i-1) : s[j] # x

\* s.splice(i, 1, x): the element at i is replaced by x
splice(s, i, x) == [s EXCEPT ![i] = x]

\* sequences over S of length at most n
SeqUpTo(S, n) == UNION {[1..k -> S] : k \in 0..n}

\* ------------------------------------------------------ the page, as polled
\* A "People" button label: -1 when it holds no number, else its number.
Labels == (-1)..MaxCount

\* the page calls of a poll that runs after the browser was closed all throw
ClosedPage ==
  [baseline |-> FALSE, hostText |-> FALSE, timeoutText |-> FALSE,
   denied |-> FALSE, buttons |-> <<>>, throws |-> TRUE]

\* what one poll finds on the page; a page whose calls throw shows nothing
LobbyPage ==
  [baseline : BOOLEAN,      \* button People or button Leave call is found
   hostText : BOOLEAN,      \* GOOGLE_LOBBY_MODE_HOST_TEXT is visible
   timeoutText : BOOLEAN,   \* GOOGLE_REQUEST_TIMEOUT is visible
   denied : BOOLEAN,        \* GOOGLE_REQUEST_DENIED is visible
   buttons : SeqUpTo(Labels, MaxButtons),
   throws : {FALSE}]        \* the page calls of this poll throw
  \cup {ClosedPage}

detectLobbyModeHostWaitingText(page) ==
  IF page.throws THEN "UNABLE_TO_DETECT_LOBBY_MODE"
  ELSE IF page.hostText THEN "WAITING_FOR_HOST_TO_ADMIT_BOT"
  ELSE IF page.timeoutText THEN "WAITING_REQUEST_TIMEOUT"
  ELSE "LOBBY_MODE_NOT_ACTIVE"

\* the script evaluated in the page: first the first People button, whose
\* number must be >= 1, then any button whose label holds a number
participantCountDetected(buttons) ==
  \/ Len(buttons) > 0 /\ buttons[1] >= 1
  \/ \E i \in 1..Len(buttons) : buttons[i] >= 0

\* botWasDeniedAccess after the try around getByText(GOOGLE_REQUEST_DENIED)
botWasDeniedAccess(page) == ~page.throws /\ page.denied

\* what one run of the interval callback does with the promise
PollBranch(page) ==
  IF page.baseline /\ detectLobbyModeHostWaitingText(page) = "WAITING_REQUEST_TIMEOUT"
    THEN "requestTimeout"
  ELSE IF page.baseline /\ detectLobbyModeHostWaitingText(page) # "WAITING_FOR_HOST_TO_ADMIT_BOT"
    THEN (IF ~page.throws /\ participantCountDetected(page.buttons) THEN "admit" ELSE "continue")
  ELSE IF botWasDeniedAccess(page) THEN "denied"
  ELSE "continue"

\* a poll that sees nothing at all: no in-call UI, no text, no People label
NoCues ==
  [baseline |-> FALSE, hostText |-> FALSE, timeoutText |-> FALSE,
   denied |-> FALSE, buttons |-> <<>>, throws |-> FALSE]

\* history of the lobby wait: the last poll that returned, and what it saw
NoGate ==
  [n |-> 0,              \* number of the last poll that returned (0: none)
   at |-> 0,             \* the time at which it had started
   late |-> FALSE,       \* it returned after the promise was settled
   branch |-> "none",    \* its PollBranch
   page |-> NoCues,      \* the page it saw, when it settled the promise or
                         \* showed the denial text (then without its labels)
   deniedSeen |-> FALSE, \* an earlier poll returned with the denial text visible
   confirmed |-> FALSE,  \* it saw the in-call UI and a participant number >= 1,
                         \* and none of the three texts
   quiet |-> 0,          \* polls 1..quiet returned in order, all on NoCues
   racedTimeout |-> FALSE] \* the timeout fired with a poll in flight

\* ------------------------------------------------------------ the recorder
\* the state of the script that recordMeetingPage evaluates in the page, and
\* the host's waitingPromise
NoRecording ==
  [recorder |-> "none",          \* mediaRecorder: none, recording, inactive
   stopThrows |-> FALSE,         \* MediaRecorder.stop() throws when inactive
   hasAudioTracks |-> FALSE,
   timeoutId |-> FALSE,          \* the duration-cap timer is armed
   inactivityParticipantDetectionTimeout |-> FALSE,
   inactivitySilenceDetectionTimeout |-> FALSE,
   loneTest |-> FALSE,           \* the presence monitor's timer is armed
   loneTestDelay |-> 0,          \* the delay it was armed with (0: not armed)
   lastRead |-> -2,              \* history: the last participant number that
                                 \* check() evaluated (-2: none yet)
   unknownRun |-> 0,             \* history: undefined reads evaluated since the
                                 \* last number
   presenceStops |-> 0,          \* history: stop requests of the presence monitor
   loneTestDetectionActive |-> TRUE,
   detectionFailures |-> 0,
   monitor |-> FALSE,            \* the silence monitor's flag
   silenceTimer |-> FALSE,       \* setTimeout(monitorSilence, 100) is pending
   silenceDuration |-> 0,        \* in ms
   run |-> 0,                    \* history: readings below the threshold since
                                 \* the last reading that was not below it
   silenceStops |-> 0,           \* history: stop requests of the silence monitor
   silenceOff |-> "none",        \* history: why the silence monitor gave up:
                                 \* none, noTrack, setup, sample
   isOnValidGoogleMeetPageInterval |-> FALSE,
   dismissModalsInterval |-> FALSE,
   dismissModalErrorCount |-> 0,
   presenceStarted |-> FALSE,    \* history: detectLoneParticipantResilient ran
   silenceStarted |-> FALSE,     \* history: detectIncrediblySilentMeeting ran
   stopCalls |-> 0,              \* calls of stopTheRecording
   capStops |-> 0,               \* history: stop requests of the duration cap
   tracksStopped |-> 0,          \* times the tracks were stopped
   timersCleared |-> 0,          \* times the timers were cleared
   meetEnd |-> 0,                \* accepted calls of screenAppMeetEnd
   lastChunk |-> "none",         \* the chunk that mediaRecorder.stop() emits:
                                 \* none, pending (in the page), saved
   waitingPromise |-> "none"]    \* none, pending, resolved

\* --------------------------------------------------------- retryActionWithWait
\* no call of retryActionWithWait is under way
NoRetry ==
  [pc |-> "idle",        \* idle, action, onFailure, wait, returned, threw
   k |-> 0,              \* the action fails on its first k runs
   maxAttempts |-> 0,
   waitMs |-> 0,
   hook |-> FALSE,       \* an onFailure hook was passed
   attempts |-> 0,       \* runs of the action so far
   hooks |-> 0,          \* runs of the hook so far
   waited |-> 0,         \* ms spent waiting between attempts
   failedLast |-> FALSE, \* the last run of the action failed
   error |-> 0]          \* the failed run whose error was thrown (0: none)

\* the page-validity check is not followed
NoValidity ==
  [page |-> [url |-> FALSE, removed |-> FALSE, notAdmitted |-> FALSE,
             people |-> FALSE, leave |-> FALSE, throws |-> FALSE],
                      \* history: the page that the last run looked at
   runs |-> 0,        \* history: runs of the callback
   stops |-> 0]       \* history: runs that called stopTheRecording

\* ------------------------------------------------- the live connections
\* the connection ids in use
ConnectionIds == {"k1", "k2"}

\* no live connection was created
NoLive ==
  [connections |-> <<>>,   \* history: every connection created, in order, each
                           \* with its id, its state (connecting, open,
                           \* closing, closed), whether closeLiveConnection was
                           \* called on it, and the buffers sent over it
   liveConnections |-> [id \in ConnectionIds |-> 0],
                           \* the Map: the connection under each id (0: none)
   sends |-> 0]            \* history: buffers sent in all

\* createLiveConnection: the new connection replaces the entry of its id
createLiveConnection(l, id) ==
  [l EXCEPT !.connections = Append(@, [id |-> id, state |-> "connecting",
                                       closeCalled |-> FALSE, sent |-> 0]),
            !.liveConnections[id] = Len(l.connections) + 1]

\* the handler of 'close' registered by createLiveConnection for connection i:
\* it deletes the entry of the id, whichever connection that entry holds
onClose(l, i) ==
  [l EXCEPT !.connections[i].state = "closed",
            !.liveConnections[l.connections[i].id] = 0]

\* sendToLiveConnection
sendToLiveConnection(l, id) ==
  LET connection == l.liveConnections[id]
  IN IF connection = 0 THEN l
     ELSE IF l.connections[connection].state = "open"
       THEN [l EXCEPT !.connections[connection].sent = @ + 1, !.sends = @ + 1]
     ELSE l

\* closeLiveConnection on the registry; finish() asks the server to close
\* the stream, the close event follows later
closeLiveConnectionById(l, id, finishThrows) ==
  LET connection == l.liveConnections[id]
  IN IF connection = 0 THEN l
     ELSE IF finishThrows THEN [l EXCEPT !.connections[connection].closeCalled = TRUE]
     ELSE [l EXCEPT !.connections[connection].closeCalled = TRUE,
                    !.connections[connection].state =
                       IF @ = "closed" THEN @ ELSE "closing",
                    !.liveConnections[id] = 0]

\* ------------------------------------------------------------- transcribe
\* no call of __processAudioChunk is followed
NoStt ==
  [pc |-> "idle",          \* idle, called, wav, opus, webm, auto, respond, done
   service |-> FALSE,      \* this._sttService is set
   audioBuffer |-> <<>>,
   response |-> [kind |-> "none", transcript |-> <<>>],
                           \* what the attempt that ended the search resolved to
   tried |-> <<>>,         \* history: the formats tried, in order
   last |-> "none",        \* history: how the last attempt ended
   transcribed |-> "none", \* history: transcribe returned or threw
   result |-> [success |-> FALSE, transcript |-> <<>>]]
                           \* what __processAudioChunk resolves to, once done

\* ------------------------------------------- speakInMeeting, calls that overlap
SpeakCalls == 1..MaxSpeakCalls

\* no call of speakInMeeting is under way; the source that call c creates is
\* named c
NoTts ==
  [call |-> [c \in SpeakCalls |->
               [pc |-> "idle",     \* idle, textToSpeech, created, playing, done
                used |-> 0,        \* the source whose start(0) it called (0: none)
                success |-> FALSE]],
   ttsAudioSource |-> 0,           \* window.__ttsAudioSource and, with it,
                                   \* __ttsAudioStream and __ttsAudioContext
   started |-> {}]                 \* the sources on which start(0) has been called

\* the first page.evaluate: the source of call c is created and stored globally
createTtsStream(t, c) ==
  [t EXCEPT !.call[c].pc = "created", !.ttsAudioSource = c]

\* the second page.evaluate: the globals are read and ttsSource.start(0) is
\* called; on a source already started it throws InvalidStateError, which the
\* catch turns into an unsuccessful result
playTtsStream(t, c) ==
  LET ttsSource == t.ttsAudioSource
  IN IF ttsSource \in t.started
       THEN [t EXCEPT !.call[c].pc = "done"]
       ELSE [t EXCEPT !.call[c].pc = "playing",
                      !.call[c].used = ttsSource,
                      !.started = @ \cup {ttsSource}]

\* ------------------------------------------------------- the "Got it" loop
maxConsecutiveNoChange == 2

\* the loop over the "Got it" buttons is not followed
NoGotIt ==
  [pc |-> "idle",                  \* idle, waitForSelector, loop, done
   gotItButtonsClicked |-> 0,
   previousButtonCount |-> -1,
   consecutiveNoChangeCount |-> 0,
   exit |-> "none"]                \* history: none, zero, noChange, caught

\* one iteration of while (true), on currentButtonCount visible buttons of
\* which clicked were clicked without error
gotItIteration(g, currentButtonCount, clicked) ==
  IF currentButtonCount = 0
    THEN [g EXCEPT !.pc = "done", !.exit = "zero"]
  ELSE LET n == IF currentButtonCount = g.previousButtonCount
                  THEN g.consecutiveNoChangeCount + 1
                  ELSE 0
       IN IF currentButtonCount = g.previousButtonCount /\ n >= maxConsecutiveNoChange
            THEN [g EXCEPT !.pc = "done", !.exit = "noChange",
                           !.consecutiveNoChangeCount = n]
            ELSE [g EXCEPT !.consecutiveNoChangeCount = n,
                           !.previousButtonCount = currentButtonCount,
                           !.gotItButtonsClicked =
                              IF @ + clicked > MaxClicked THEN MaxClicked ELSE @ + clicked]

\* ---------------------------------------------------------- the host bridge
\* the values an id can take: v4() gives the bot one of them
Ids == {"id1", "id2"}

\* what a chunk can hold
ChunkData == {"x", "y"}

\* the host bridge is not followed
NoBridge ==
  [slightlySecretId |-> "none",
   saved |-> <<>>,            \* the chunks given to saveDataToTempFile, in order
   waitingPromise |-> "none", \* none, pending, resolved
   calls |-> 0,               \* history: calls of either function
   ownSent |-> <<>>,          \* history: the chunks of the calls with the
                              \* bot's id, in order
   ownEnds |-> 0,             \* history: calls of screenAppMeetEnd with it
   foreign |-> 0]             \* history: calls with another id

\* a screenAppSendData that saves whatever id it is given
sendDataAnyId(b, id, data) ==
  [b EXCEPT !.saved = Append(@, data)]

\* the host function screenAppSendData(slightlySecretId, data)
sendData(b, id, data) ==
  IF id # b.slightlySecretId THEN b
  ELSE [b EXCEPT !.saved = Append(@, data)]

\* the host function screenAppMeetEnd(slightlySecretId); resolveEarly on a
\* resolved promise does nothing
meetEnd(b, id) ==
  IF id # b.slightlySecretId THEN b
  ELSE [b EXCEPT !.waitingPromise = "resolved"]

\* ------------------------------------------------------- generateResponse
\* the characters of a completion: a blank and a letter
Chars == {" ", "a"}

\* the canned text of generateResponse and of __triggerBotResponse
Canned == <<"c", "a", "n">>

\* String.prototype.trim, on a sequence of characters
RECURSIVE trimStart(_)
trimStart(s) == IF s # <<>> /\ Head(s) = " " THEN trimStart(Tail(s)) ELSE s

RECURSIVE trimEnd(_)
trimEnd(s) ==
  IF s # <<>> /\ s[Len(s)] = " " THEN trimEnd(SubSeq(s, 1, Len(s) - 1)) ELSE s

trim(s) == trimEnd(trimStart(s))

\* what the provider does with the request: it answers with a content, it
\* answers without one (no choice, no message or no content), or the request
\* throws; "noService": the bot has no OpenAIService
Contents == UNION {[1..n -> Chars] : n \in 0..MaxContent}

ProviderOutcomes ==
  [kind : {"content"}, content : Contents]
    \cup [kind : {"missing", "throws", "noService"}, content : {<<>>}]

\* a generateResponse that returns what the provider sent, empty or not
generateResponseNoFallback(p) ==
  IF p.kind = "throws" THEN Canned
  ELSE IF p.kind = "missing" THEN <<>>
  ELSE trim(p.content)

\* OpenAIService.generateResponse on the provider's outcome p
generateResponse(p) ==
  IF p.kind = "throws" THEN Canned
  ELSE LET responseText == IF p.kind = "missing" THEN <<>> ELSE trim(p.content)
       IN IF responseText # <<>> THEN responseText ELSE Canned

\* no call of __triggerBotResponse is followed
NoRespond ==
  [pc |-> "idle",          \* idle, generate, speak, done
   provider |-> [kind |-> "missing", content |-> <<>>],
   failure |-> "none",     \* where speakInMeeting fails first
   text |-> <<>>,          \* responseText
   spoken |-> <<>>]        \* the texts passed to speakInMeeting, in order

\* ------------------------------------------------- the live connection
\* no connection id, no connection
NoDeepgram ==
  [id |-> FALSE,            \* _deepgramConnectionId is set
   conn |-> "none",         \* the entry of liveConnections: none, open, closed
   finishErrors |-> 0,      \* history: connection.finish() threw
   reportsAtClose |-> -1]   \* history: reports made when the catch of join
                            \* called closeLiveConnection (-1: not called)

\* a closeLiveConnection that leaves the connection as it is
closeLiveConnectionKeeps(d, finishThrows) == d

\* SttService.closeLiveConnection; it catches what connection.finish() throws
closeLiveConnection(d, finishThrows) ==
  IF d.conn = "open"
    THEN IF finishThrows
           THEN [d EXCEPT !.finishErrors = @ + 1]
           ELSE [d EXCEPT !.conn = "closed"]
    ELSE d

\* ------------------------------------------------------------- speakInMeeting
\* no call of speakInMeeting is remembered
NoSpeak ==
  [failure |-> "unset", result |-> "none", spoken |-> FALSE,
   steps |-> <<>>,            \* history: what the call did to the page, in order
   audioReplaced |-> FALSE]   \* sender.replaceTrack(ttsTrack) was called

\* where a call of speakInMeeting fails first: nowhere, no API key in the
\* config, the constructor of TtsService, the provider's request or stream,
\* the creation of the stream in the page, the microphone buttons, the
\* playback, the switching off of the microphone
SpeakFailures ==
  {"none", "noKey", "TtsService", "textToSpeech", "streamCreation", "micToggle",
   "playback", "micOff"}

\* TtsService.textToSpeech: it logs what the provider throws and throws it again
textToSpeech(failure) == IF failure = "textToSpeech" THEN "throws" ELSE "audioBuffer"

\* a speakInMeeting whose catch throws the error again
speakInMeetingRethrows(failure) ==
  IF failure = "noKey" THEN [result |-> "returned", spoken |-> FALSE]
  ELSE IF failure = "TtsService" \/ textToSpeech(failure) = "throws"
    THEN [result |-> "threw", spoken |-> FALSE]
  ELSE IF failure = "streamCreation" THEN [result |-> "returned", spoken |-> FALSE]
  ELSE IF failure = "micToggle" THEN [result |-> "threw", spoken |-> FALSE]
  ELSE IF failure = "playback" THEN [result |-> "returned", spoken |-> FALSE]
  ELSE IF failure = "micOff" THEN [result |-> "threw", spoken |-> TRUE]
  ELSE [result |-> "returned", spoken |-> TRUE]

\* speakInMeeting: how the call ends and whether the text was played.  The
\* whole body is in one try whose catch only logs.
speakInMeeting(failure) ==
  IF failure = "noKey" THEN [result |-> "returned", spoken |-> FALSE]
  ELSE IF failure = "TtsService" \/ textToSpeech(failure) = "throws"
    THEN [result |-> "returned", spoken |-> FALSE]
  ELSE IF failure = "streamCreation" THEN [result |-> "returned", spoken |-> FALSE]
  ELSE IF failure = "micToggle" THEN [result |-> "returned", spoken |-> FALSE]
  ELSE IF failure = "playback" THEN [result |-> "returned", spoken |-> FALSE]
  ELSE IF failure = "micOff" THEN [result |-> "returned", spoken |-> TRUE]
  ELSE [result |-> "returned", spoken |-> TRUE]

\* what a call of speakInMeeting does to the page, in order, up to its first
\* failure: the stream is created in the page, the microphone is switched on,
\* then off and on again, and only then the playback script looks for a
\* sender to put the track into
speakSteps(failure) ==
  IF failure \in {"noKey", "TtsService", "textToSpeech"} THEN <<>>
  ELSE IF failure = "streamCreation" THEN <<"createStream">>
  ELSE IF failure = "micToggle" THEN <<"createStream", "enableMic">>
  ELSE <<"createStream", "enableMic", "toggleOff", "toggleOn", "replaceTrack">>

\* audioReplaced of the playback script: a sender with an audio track was
\* found among the peer connections
audioReplaced(failure, transport) ==
  /\ transport
  /\ failure # "playback"
  /\ includes(speakSteps(failure), "replaceTrack")

\* ------------------------------------------------------------ the capture path
\* the state of the script of startVoiceActivatedListening in the page
NoCapture ==
  [strategy |-> "none",         \* none, locating (tryCaptureAndTranscribe),
                                \* remote (PCM capture), mic (recognition)
   retryCount |-> 0,            \* while locating; not read afterwards
   attemptAt |-> 0,             \* while locating: ms from the start of the
                                \* script to the attempt that is due
   intervalStarts |-> 0,        \* history: times transcriptionInterval was set
   micStarts |-> 0,             \* history: calls of startMicrophoneRecognition
   now |-> 0,                   \* ms since the capture was set up
   buffers |-> 0,               \* runs of onaudioprocess so far
   checks |-> 0,                \* runs of transcriptionInterval so far
   totalSamples |-> 0,          \* samples held in pcmAudioBuffers
   sentSamples |-> 0,           \* history: how many of them, from the first
                                \* on, have been submitted already
   lastAudioActivityTime |-> 0,
   activeAt |-> -1,             \* history: time of the last active buffer
                                \* (-1: none yet)
   lastTranscriptionTime |-> -EpochMs,
   isSpeaking |-> FALSE,
   stopped |-> FALSE,           \* history: stopTheRecording has run
   pending |-> 0,               \* calls of __processAudioChunk in flight
   respBatch |-> 0,             \* calls of __triggerBotResponse in progress,
   respMic |-> 0,               \* by the path that made them
   triggerLen |-> -1,           \* history: trimmed length of the last text
                                \* passed to __triggerBotResponse (-1: none)
   cooldowns |-> {},            \* due times of the timers that clear isSpeaking
   submitted |-> 0,             \* history: batches sent for transcription
   discarded |-> 0,             \* history: batches dropped for inactivity
   loudEnd |-> 0]               \* history: every buffer up to this time was
                                \* active and none after it (-1: neither)

\* ------------------------------------------------------------------- Init
\* join has been called: nothing has run yet
JoinInit ==
  /\ pc = "launch"
  /\ state = <<"processing">>
  /\ reported = <<>>
  /\ error = NoError
  /\ thrown = NoError
  /\ uploadResult = "none"
  /\ bodyText = "unread"
  /\ handlers = <<>>
  /\ browserOpen = FALSE
  /\ waiting = "unset"
  /\ waitTimeout = FALSE
  /\ waitInterval = FALSE
  /\ elapsed = 0
  /\ polls = 0
  /\ inFlight = {}
  /\ outcome = "None"
  /\ gate = NoGate
  /\ rec = NoRecording
  /\ googleMeetPageStatus = "unset"

Init ==
  /\ JoinInit
  /\ retry = NoRetry
  /\ cap = NoCapture
  /\ speak = NoSpeak
  /\ deepgram = NoDeepgram
  /\ respond = NoRespond
  /\ bridge = NoBridge
  /\ validity = NoValidity
  /\ gotIt = NoGotIt
  /\ tts = NoTts
  /\ stt = NoStt
  /\ live = NoLive

\* a step of joinMeeting throws e: control goes to the catch of join
Throw(e) ==
  /\ error' = e
  /\ pc' = "catch"

\* --------------------------------------------------- joinMeeting, to the lobby
\* createBrowserContext, addInitScript, goto
Launch ==
  /\ pc = "launch"
  /\ \/ /\ browserOpen' = TRUE
        /\ pc' = "verify"
        /\ error' = error
     \/ /\ browserOpen' \in BOOLEAN
        /\ Throw(PlainError)
  /\ UNCHANGED <<state, reported, thrown, uploadResult, googleMeetPageStatus, bodyText, handlers, gateVars, rec, sideVars>>

PageUrls == {"meet.google.com", "accounts.google.com", "elsewhere", "throws"}

\* the result of verifyItIsOnGoogleMeetPage; "null" is its catch
verifyItIsOnGoogleMeetPage(url) ==
  IF url = "throws" THEN "null"
  ELSE IF url = "meet.google.com" THEN "GOOGLE_MEET_PAGE"
  ELSE IF url = "accounts.google.com" THEN "SIGN_IN_PAGE"
  ELSE "UNSUPPORTED_PAGE"

\* dismissDeviceCheck (never throws) and the page-type check: only
\* SIGN_IN_PAGE throws, UNSUPPORTED_PAGE is logged
Verify ==
  /\ pc = "verify"
  /\ \E url \in PageUrls :
       /\ googleMeetPageStatus' = verifyItIsOnGoogleMeetPage(url)
       /\ IF googleMeetPageStatus' = "SIGN_IN_PAGE"
            THEN Throw(UnsupportedMeetingError)
            ELSE pc' = "nameInput" /\ error' = error
  /\ UNCHANGED <<state, reported, thrown, uploadResult, bodyText, handlers, browserOpen, gateVars, rec, sideVars>>

\* wait for the name field (3 attempts), fill it, toggleDevices;
\* googleMeetPageStatus is not read any more
NameInput ==
  /\ pc = "nameInput"
  /\ \/ pc' = "askToJoin" /\ error' = error
     \/ Throw(PlainError)
  /\ googleMeetPageStatus' = "unset"
  /\ UNCHANGED <<state, reported, thrown, uploadResult, bodyText, handlers, browserOpen, gateVars, rec, sideVars>>

\* click "Ask to join" (3 attempts), then arm waitTimeout and waitInterval
AskToJoin ==
  /\ pc = "askToJoin"
  /\ \/ /\ pc' = "lobby"
        /\ error' = error
        /\ waiting' = "pending"
        /\ waitTimeout' = TRUE
        /\ waitInterval' = TRUE
     \/ /\ Throw(PlainError)
        /\ UNCHANGED <<waiting, waitTimeout, waitInterval>>
  /\ UNCHANGED <<state, reported, thrown, uploadResult, googleMeetPageStatus, bodyText, handlers, browserOpen,
                 elapsed, polls, inFlight, outcome, gate, rec, sideVars>>

\* ------------------------------------------------------------ the lobby wait
\* a promise that could be resolved a second time
resolveWaitingAgain(v, branch) ==
  /\ waiting' = (IF v THEN "true" ELSE "false")
  /\ outcome' = branch
  /\ pc' = (IF v THEN "gotIt" ELSE "lobbyBody")
  /\ state' = (IF v THEN Append(state, "joined") ELSE state)

\* joinMeeting without its check of waitingAtLobbySuccess
resolveWaitingUnchecked(v, branch) ==
  IF waiting = "pending"
    THEN /\ waiting' = (IF v THEN "true" ELSE "false")
         /\ outcome' = branch
         /\ pc' = "gotIt"
         /\ state' = Append(state, "joined")
    ELSE UNCHANGED <<waiting, outcome, pc, state>>

\* resolveWaiting(v) and, as the promise's reaction, the code of joinMeeting
\* after "await waitAtLobbyPromise" up to its next await.  A settled promise
\* ignores a second resolveWaiting.
resolveWaiting(v, branch) ==
  IF waiting = "pending"
    THEN /\ waiting' = (IF v THEN "true" ELSE "false")
         /\ outcome' = branch
         /\ pc' = (IF v THEN "gotIt" ELSE "lobbyBody")
         /\ state' = (IF v THEN Append(state, "joined") ELSE state)
    ELSE UNCHANGED <<waiting, outcome, pc, state>>

\* config.joinWaitTime * 60 * 1000, in seconds
wanderingTime == JoinWaitPolls * PollIntervalSec

\* an interval armed with 15000 instead of 20000
NextPollAt15s(now) == now + 15

\* when the next run of the setInterval callback starts: one interval after
\* the interval was armed or last fired
NextPollAt(now) == now + PollIntervalSec

\* the interval fires: one more run of the callback starts.  The timeout was
\* armed first, so it goes first when both are due at wanderingTime.
WaitIntervalFire ==
  /\ waitInterval
  /\ NextPollAt(elapsed) < wanderingTime
  /\ Cardinality(inFlight) < MaxInFlight
  /\ elapsed' = NextPollAt(elapsed)
  /\ polls' = polls + 1
  /\ inFlight' = inFlight \cup {[n |-> polls', at |-> elapsed']}
  /\ UNCHANGED <<joinVars, waiting, waitTimeout, waitInterval, outcome, gate, rec, sideVars>>

\* the setTimeout callback: clearInterval(waitInterval); resolveWaiting(false)
WaitTimeoutFire ==
  /\ waitTimeout
  /\ NextPollAt(elapsed) >= wanderingTime
  /\ elapsed' = wanderingTime
  /\ waitTimeout' = FALSE
  /\ waitInterval' = FALSE
  /\ resolveWaiting(FALSE, "TimedOut")
  /\ gate' = [gate EXCEPT !.racedTimeout = (inFlight # {})]
  /\ UNCHANGED <<reported, error, thrown, uploadResult, googleMeetPageStatus, bodyText, handlers, browserOpen, polls, inFlight, rec, sideVars>>

\* the evidence of admission: in-call UI, no lobby or denial text, and a
\* People label with a number >= 1
Confirmed(page) ==
  /\ page.baseline /\ ~page.hostText /\ ~page.timeoutText /\ ~page.denied
  /\ \E i \in 1..Len(page.buttons) : page.buttons[i] >= 1

\* the history once joinMeeting has gone on: only the race is remembered
Forget(g) == [NoGate EXCEPT !.racedTimeout = g.racedTimeout]

\* the history after poll p returned on page
GateAfter(p, page) ==
  IF waiting # "pending"
    THEN [Forget(gate) EXCEPT !.late = TRUE, !.branch = PollBranch(page)]
  ELSE
  [n |-> p.n,
   at |-> p.at,
   late |-> FALSE,
   branch |-> PollBranch(page),
   page |-> (IF PollBranch(page) # "continue" THEN page
             ELSE IF page.denied THEN [page EXCEPT !.buttons = <<>>]
             ELSE NoCues),
   deniedSeen |-> (gate.deniedSeen \/ (gate.n # 0 /\ gate.page.denied)),
   confirmed |-> Confirmed(page),
   quiet |-> (IF page = NoCues /\ p.n = gate.quiet + 1 THEN p.n ELSE gate.quiet),
   racedTimeout |-> gate.racedTimeout]

\* one run of the setInterval callback returns, having seen page
WaitIntervalCallback(p, page) ==
  /\ p \in inFlight
  /\ ~browserOpen => page = ClosedPage
  /\ inFlight' = inFlight \ {p}
  /\ gate' = GateAfter(p, page)
  /\ IF PollBranch(page) = "continue"
       THEN UNCHANGED <<waiting, outcome, pc, state, waitTimeout, waitInterval>>
       ELSE /\ waitInterval' = FALSE
            /\ waitTimeout' = FALSE
            /\ CASE PollBranch(page) = "admit" -> resolveWaiting(TRUE, "Admitted")
                 [] PollBranch(page) = "denied" -> resolveWaiting(FALSE, "Denied")
                 [] OTHER -> resolveWaiting(FALSE, "TimedOut")
  /\ UNCHANGED <<reported, error, thrown, uploadResult, googleMeetPageStatus, bodyText, handlers, browserOpen, elapsed, polls, rec, sideVars>>

\* Once the wait is settled a returning poll can act only through its
\* branch: one page of each branch is taken for it.
LatePages ==
  {ClosedPage,
   NoCues,
   [NoCues EXCEPT !.baseline = TRUE, !.buttons = <<1>>],
   [NoCues EXCEPT !.baseline = TRUE, !.timeoutText = TRUE],
   [NoCues EXCEPT !.denied = TRUE]}

PollReturns ==
  \E p \in inFlight, page \in (IF waiting = "pending" THEN LobbyPage ELSE LatePages) :
    WaitIntervalCallback(p, page)

\* what reading document.body.innerText gives: a text with or without
\* GOOGLE_REQUEST_DENIED, null, or an error
BodyTexts == {"denied", "other", "null", "throws"}

\* The text is read in the same turn in which the wait was settled: after a
\* poll that has just seen the denial text visible, the body holds it.
BodyTextsAfter(branch) ==
  IF branch = "Denied" THEN {"denied", "throws"} ELSE BodyTexts

\* userDenied ignored: every admission failure is retryable
lobbyErrorAlwaysRetryable(text) ==
  IF text = "throws" THEN PlainError
  ELSE WaitingAtLobbyRetryError(TRUE, LobbyAttempt)

\* the error joinMeeting throws after a failed wait, on the body text read
lobbyError(text) ==
  IF text = "throws" THEN PlainError
  ELSE WaitingAtLobbyRetryError(~(text = "denied"), LobbyAttempt)

\* document.body.innerText is read, WaitingAtLobbyRetryError is thrown
LobbyBody ==
  /\ pc = "lobbyBody"
  /\ bodyText' \in BodyTextsAfter(outcome)
  /\ error' = lobbyError(bodyText')
  /\ pc' = "lobbyCatch"
  /\ gate' = Forget(gate)
  /\ UNCHANGED <<state, reported, thrown, uploadResult, googleMeetPageStatus, handlers, browserOpen,
                 waiting, waitTimeout, waitInterval, elapsed, polls, inFlight, outcome, rec, sideVars>>

\* catch (lobbyError): the browser is closed and the error is thrown again
LobbyCatch ==
  /\ pc = "lobbyCatch"
  /\ browserOpen' = FALSE
  /\ pc' = "catch"
  /\ UNCHANGED <<state, reported, error, thrown, uploadResult, googleMeetPageStatus, bodyText, handlers, gateVars, rec, sideVars>>

\* ------------------------------------------------------ joinMeeting, admitted
\* the "Got it" dialogs; every error is caught
GotIt ==
  /\ pc = "gotIt"
  /\ pc' = "greeting"
  /\ gate' = Forget(gate)
  /\ UNCHANGED <<state, reported, error, thrown, uploadResult, googleMeetPageStatus, bodyText, handlers, browserOpen,
                 waiting, waitTimeout, waitInterval, elapsed, polls, inFlight, outcome, rec, sideVars>>

\* await this.speakInMeeting(greeting), whatever fails in it
Greeting ==
  /\ pc = "greeting"
  /\ \E failure \in SpeakFailures, transport \in BOOLEAN :
       LET r == speakInMeeting(failure)
       IN /\ speak' = [failure |-> failure, result |-> r.result, spoken |-> r.spoken,
                       steps |-> speakSteps(failure),
                       audioReplaced |-> audioReplaced(failure, transport)]
          /\ IF r.result = "threw"
               THEN Throw(PlainError)
               ELSE pc' = "listening" /\ error' = error
  /\ UNCHANGED <<state, reported, thrown, uploadResult, googleMeetPageStatus, bodyText, handlers, browserOpen, gateVars, rec, retry, cap, deepgram, respond, bridge, validity, gotIt, tts, stt, live>>

\* how far startVoiceActivatedListening gets: a page call rejects before the
\* connection id is set, there is no SttService or createLiveConnection
\* throws, or the live connection is created
ListeningOutcomes == {"failsEarly", "noConnection", "created"}

\* _deepgramConnectionId and the connection after startVoiceActivatedListening
startVoiceActivatedListening(d, reached) ==
  IF reached = "failsEarly" THEN d
  ELSE IF reached = "noConnection" THEN [d EXCEPT !.id = TRUE]
  ELSE [d EXCEPT !.id = TRUE, !.conn = "open"]

\* startVoiceActivatedListening; it catches every error
Listening ==
  /\ pc = "listening"
  /\ pc' = "recordSetup"
  /\ speak' = NoSpeak
  /\ \E reached \in ListeningOutcomes :
       deepgram' = startVoiceActivatedListening(deepgram, reached)
  /\ UNCHANGED <<state, reported, error, thrown, uploadResult, googleMeetPageStatus, bodyText, handlers, browserOpen, gateVars, rec, retry, cap, respond, bridge, validity, gotIt, tts, stt, live>>

\* a startRecording that starts the presence monitor at once
StartedNoGrace(hasAudio, throws) ==
  [NoRecording EXCEPT
     !.recorder = "recording",
     !.stopThrows = throws,
     !.hasAudioTracks = hasAudio,
     !.timeoutId = TRUE,
     !.inactivityParticipantDetectionTimeout = TRUE,
     !.loneTest = TRUE,
     !.loneTestDelay = LoneTestDelayMs,
     !.inactivitySilenceDetectionTimeout = TRUE,
     !.isOnValidGoogleMeetPageInterval = TRUE,
     !.dismissModalsInterval = TRUE,
     !.waitingPromise = "pending"]

\* the script's startRecording: recorder started, every timer armed
Started(hasAudio, throws) ==
  [NoRecording EXCEPT
     !.recorder = "recording",
     !.stopThrows = throws,
     !.hasAudioTracks = hasAudio,
     !.timeoutId = TRUE,
     !.inactivityParticipantDetectionTimeout = TRUE,
     !.inactivitySilenceDetectionTimeout = TRUE,
     !.isOnValidGoogleMeetPageInterval = TRUE,
     !.dismissModalsInterval = TRUE,
     !.waitingPromise = "pending"]

\* recordMeetingPage up to "await waitingPromise.promise".  The lobby polls
\* still in flight touch nothing of the recorder; they are taken first, and
\* with them the clock of the lobby wait goes out of use.
RecordSetup ==
  /\ pc = "recordSetup"
  /\ inFlight = {}
  /\ \/ /\ \E hasAudio \in BOOLEAN, throws \in BOOLEAN : rec' = Started(hasAudio, throws)
        /\ pc' = "recording"
        /\ error' = error
     \/ \* no getDisplayMedia: startRecording returns at once
        /\ rec' = [NoRecording EXCEPT !.waitingPromise = "pending"]
        /\ pc' = "recording"
        /\ error' = error
     \/ \* exposeFunction, evaluate or getDisplayMedia rejects
        /\ Throw(PlainError)
        /\ rec' = rec
  /\ gate' = NoGate
  /\ elapsed' = 0
  /\ polls' = 0
  /\ UNCHANGED <<state, reported, thrown, uploadResult, googleMeetPageStatus, bodyText, handlers, browserOpen,
                 waiting, waitTimeout, waitInterval, inFlight, outcome, sideVars>>

\* a screenAppMeetEnd that leaves waitingPromise alone
screenAppMeetEndUnheard(r) ==
  [r EXCEPT !.meetEnd = @ + 1]

\* screenAppMeetEnd on the host: waitingPromise.resolveEarly()
screenAppMeetEnd(r) ==
  [r EXCEPT !.meetEnd = @ + 1, !.waitingPromise = "resolved"]

\* the body of stopTheRecording after mediaRecorder.stop()
StopBody(r) ==
  screenAppMeetEnd(
    [r EXCEPT
       !.recorder = "inactive",
       !.lastChunk = IF r.recorder = "recording" THEN "pending" ELSE @,
       !.tracksStopped = @ + 1,
       !.timersCleared = @ + 1,
       !.timeoutId = FALSE,
       !.inactivityParticipantDetectionTimeout = FALSE,
       !.inactivitySilenceDetectionTimeout = FALSE,
       !.loneTest = FALSE,
       !.loneTestDelay = 0,
       !.isOnValidGoogleMeetPageInterval = FALSE,
       !.dismissModalsInterval = FALSE])

\* stopTheRecording, called on the recorder state r.  It is an async function:
\* when mediaRecorder.stop() throws, the rest of its body is skipped and the
\* caller sees nothing.
stopTheRecording(r) ==
  IF r.recorder = "inactive" /\ r.stopThrows
    THEN [r EXCEPT !.stopCalls = @ + 1]
    ELSE StopBody([r EXCEPT !.stopCalls = @ + 1])

\* the page's script runs only while the page is alive
PageAlive == browserOpen /\ rec.recorder # "none"

\* ondataavailable for the chunk emitted by mediaRecorder.stop(): the event is
\* a task of its own, after stopTheRecording has called screenAppMeetEnd; the
\* handler reads the blob and calls screenAppSendData, which saves the chunk
screenAppSendData ==
  /\ PageAlive
  /\ rec.lastChunk = "pending"
  /\ rec' = [rec EXCEPT !.lastChunk = "saved"]
  /\ UNCHANGED <<joinVars, gateVars, sideVars>>

\* the duration-cap timer: stopTheRecording()
DurationCap ==
  /\ PageAlive
  /\ rec.timeoutId
  /\ rec' = stopTheRecording([rec EXCEPT !.timeoutId = FALSE, !.capStops = @ + 1])
  /\ UNCHANGED <<joinVars, gateVars, sideVars>>

\* retryWithBackoff: loneTest = setTimeout(check, 5000)
retryWithBackoff(r) == [r EXCEPT !.loneTest = TRUE, !.loneTestDelay = LoneTestDelayMs]

\* the grace timer of the presence monitor: retryWithBackoff arms loneTest
PresenceStart ==
  /\ PageAlive
  /\ rec.inactivityParticipantDetectionTimeout
  /\ rec' = retryWithBackoff([rec EXCEPT !.inactivityParticipantDetectionTimeout = FALSE,
                                         !.presenceStarted = TRUE])
  /\ UNCHANGED <<joinVars, gateVars, sideVars>>

\* what getContributorsCount() returns; -1 stands for undefined
Contributors == (-1)..MaxContributors

\* a check that takes the bot to be alone only on a read of 0
checkAloneAtZero(r, contributors) ==
  IF ~r.loneTestDetectionActive
    THEN [r EXCEPT !.loneTest = FALSE, !.loneTestDelay = 0]
  ELSE IF contributors = -1
    THEN retryWithBackoff(
           [r EXCEPT !.detectionFailures = @ + 1,
                     !.unknownRun = @ + 1,
                     !.loneTestDetectionActive = (r.detectionFailures + 1 < maxDetectionFailures)])
  ELSE IF contributors < 1
    THEN stopTheRecording([r EXCEPT !.detectionFailures = 0,
                                    !.unknownRun = 0,
                                    !.lastRead = contributors,
                                    !.presenceStops = @ + 1,
                                    !.loneTestDetectionActive = FALSE,
                                    !.loneTest = FALSE,
                                    !.loneTestDelay = 0])
  ELSE retryWithBackoff([r EXCEPT !.detectionFailures = 0,
                                  !.unknownRun = 0,
                                  !.lastRead = contributors])

\* a check that leaves detectionFailures as it is on a successful read
checkNoReset(r, contributors) ==
  IF ~r.loneTestDetectionActive
    THEN [r EXCEPT !.loneTest = FALSE, !.loneTestDelay = 0]
  ELSE IF contributors = -1
    THEN retryWithBackoff(
           [r EXCEPT !.detectionFailures = @ + 1,
                     !.unknownRun = @ + 1,
                     !.loneTestDetectionActive = (r.detectionFailures + 1 < maxDetectionFailures)])
  ELSE IF contributors < 2
    THEN stopTheRecording([r EXCEPT !.unknownRun = 0,
                                    !.lastRead = contributors,
                                    !.presenceStops = @ + 1,
                                    !.loneTestDetectionActive = FALSE,
                                    !.loneTest = FALSE,
                                    !.loneTestDelay = 0])
  ELSE retryWithBackoff([r EXCEPT !.unknownRun = 0,
                                  !.lastRead = contributors])

\* check(), the callback of loneTest, on the value of getContributorsCount().
\* getContributorsCount catches what its page calls throw and stopTheRecording
\* is async, so the catch of check is never entered.
check(r, contributors) ==
  IF ~r.loneTestDetectionActive
    THEN [r EXCEPT !.loneTest = FALSE, !.loneTestDelay = 0]
  ELSE IF contributors = -1
    THEN retryWithBackoff(
           [r EXCEPT !.detectionFailures = @ + 1,
                     !.unknownRun = @ + 1,
                     !.loneTestDetectionActive = (r.detectionFailures + 1 < maxDetectionFailures)])
  ELSE IF contributors < 2
    THEN stopTheRecording([r EXCEPT !.detectionFailures = 0,
                                    !.unknownRun = 0,
                                    !.lastRead = contributors,
                                    !.presenceStops = @ + 1,
                                    !.loneTestDetectionActive = FALSE,
                                    !.loneTest = FALSE,
                                    !.loneTestDelay = 0])
  ELSE retryWithBackoff([r EXCEPT !.detectionFailures = 0,
                                  !.unknownRun = 0,
                                  !.lastRead = contributors])

LoneTestCheck ==
  /\ PageAlive
  /\ rec.loneTest
  /\ \E contributors \in Contributors : rec' = check(rec, contributors)
  /\ UNCHANGED <<joinVars, gateVars, sideVars>>

\* audioActivity of one reading of the analyser: just below, at and just
\* above the threshold; -1 stands for a reading that throws
Samples == {-1, silenceThreshold - 1, silenceThreshold, silenceThreshold + 1}

\* a monitor that stops only once the limit is exceeded
monitorSilenceLate(r, sample) ==
  IF sample = -1
    THEN [r EXCEPT !.monitor = FALSE, !.silenceTimer = FALSE, !.silenceOff = "sample"]
  ELSE IF ~(sample < silenceThreshold)
    THEN [r EXCEPT !.silenceDuration = 0, !.silenceTimer = TRUE, !.run = 0]
  ELSE IF r.silenceDuration + SampleMs > inactivityLimit
    THEN stopTheRecording([r EXCEPT !.silenceDuration = @ + SampleMs,
                                    !.monitor = FALSE,
                                    !.silenceTimer = FALSE,
                                    !.run = @ + 1,
                                    !.silenceStops = @ + 1])
  ELSE [r EXCEPT !.silenceDuration = @ + SampleMs, !.silenceTimer = TRUE, !.run = @ + 1]

\* a monitor that ends the recording when a reading throws
monitorSilenceFailClosed(r, sample) ==
  IF sample = -1
    THEN stopTheRecording([r EXCEPT !.monitor = FALSE, !.silenceTimer = FALSE,
                                    !.silenceOff = "sample"])
  ELSE IF ~(sample < silenceThreshold)
    THEN [r EXCEPT !.silenceDuration = 0, !.silenceTimer = TRUE, !.run = 0]
  ELSE IF r.silenceDuration + SampleMs >= inactivityLimit
    THEN stopTheRecording([r EXCEPT !.silenceDuration = @ + SampleMs,
                                    !.monitor = FALSE,
                                    !.silenceTimer = FALSE,
                                    !.run = @ + 1,
                                    !.silenceStops = @ + 1])
  ELSE [r EXCEPT !.silenceDuration = @ + SampleMs, !.silenceTimer = TRUE, !.run = @ + 1]

\* monitorSilence on one reading of the analyser
monitorSilence(r, sample) ==
  IF sample = -1
    THEN [r EXCEPT !.monitor = FALSE, !.silenceTimer = FALSE, !.silenceOff = "sample"]
  ELSE IF ~(sample < silenceThreshold)
    THEN [r EXCEPT !.silenceDuration = 0, !.silenceTimer = TRUE, !.run = 0]
  ELSE IF r.silenceDuration + SampleMs >= inactivityLimit
    THEN stopTheRecording([r EXCEPT !.silenceDuration = @ + SampleMs,
                                    !.monitor = FALSE,
                                    !.silenceTimer = FALSE,
                                    !.run = @ + 1,
                                    !.silenceStops = @ + 1])
  ELSE [r EXCEPT !.silenceDuration = @ + SampleMs, !.silenceTimer = TRUE, !.run = @ + 1]

\* the grace timer of the silence monitor: detectIncrediblySilentMeeting,
\* which takes the first reading itself
SilenceStart ==
  /\ PageAlive
  /\ rec.inactivitySilenceDetectionTimeout
  /\ \/ /\ rec.hasAudioTracks
        /\ \E sample \in Samples :
             rec' = monitorSilence([rec EXCEPT !.inactivitySilenceDetectionTimeout = FALSE,
                                               !.silenceStarted = TRUE,
                                               !.monitor = TRUE], sample)
     \/ \* the analyser cannot be set up: the catch logs
        /\ rec.hasAudioTracks
        /\ rec' = [rec EXCEPT !.inactivitySilenceDetectionTimeout = FALSE,
                              !.silenceStarted = TRUE,
                              !.silenceOff = "setup"]
     \/ \* no audio track: detectIncrediblySilentMeeting returns at once
        /\ ~rec.hasAudioTracks
        /\ rec' = [rec EXCEPT !.inactivitySilenceDetectionTimeout = FALSE,
                              !.silenceStarted = TRUE,
                              !.silenceOff = "noTrack"]
  /\ UNCHANGED <<joinVars, gateVars, sideVars>>

\* the timer set by setTimeout(monitorSilence, 100)
MonitorSilence ==
  /\ PageAlive
  /\ rec.silenceTimer
  /\ \E sample \in Samples : rec' = monitorSilence(rec, sample)
  /\ UNCHANGED <<joinVars, gateVars, sideVars>>

\* what the page shows when the validity check looks at it
PageStates ==
  [url : BOOLEAN,          \* location.href includes meet.google.com
   removed : BOOLEAN,      \* "You've been removed from the meeting" in the body
   notAdmitted : BOOLEAN,  \* "No one responded to your request to join the call"
   people : BOOLEAN,       \* button[aria-label="People"] exists
   leave : BOOLEAN,        \* button[aria-label="Leave call"] exists
   throws : BOOLEAN]       \* reading the page throws

\* an isOnValidGoogleMeetPage that lets a throwing check pass as valid
isOnValidGoogleMeetPageThrowPasses(page) ==
  IF page.throws THEN TRUE
  ELSE IF ~page.url THEN FALSE
  ELSE IF page.removed THEN FALSE
  ELSE IF page.notAdmitted THEN FALSE
  ELSE IF ~(page.people \/ page.leave) THEN FALSE
  ELSE TRUE

\* isOnValidGoogleMeetPage: the tests in the order of the code, the catch first
isOnValidGoogleMeetPage(page) ==
  IF page.throws THEN FALSE
  ELSE IF ~page.url THEN FALSE
  ELSE IF page.removed THEN FALSE
  ELSE IF page.notAdmitted THEN FALSE
  ELSE IF ~(page.people \/ page.leave) THEN FALSE
  ELSE TRUE

\* the callback of isOnValidGoogleMeetPageInterval on the recorder state r
validPageCallback(r, page) ==
  IF isOnValidGoogleMeetPage(page) THEN r
  ELSE stopTheRecording([r EXCEPT !.isOnValidGoogleMeetPageInterval = FALSE])

\* the 10s interval of detectMeetingIsOnAValidPage
ValidPageCheck ==
  /\ PageAlive
  /\ rec.isOnValidGoogleMeetPageInterval
  /\ \E page \in PageStates : rec' = validPageCallback(rec, page)
  /\ UNCHANGED <<joinVars, gateVars, sideVars>>

\* the 2s interval of detectModalsAndDismiss
DismissModals ==
  /\ PageAlive
  /\ rec.dismissModalsInterval
  /\ \E throws \in BOOLEAN :
       rec' = (IF ~throws THEN rec
               ELSE [rec EXCEPT
                       !.dismissModalErrorCount = @ + 1,
                       !.dismissModalsInterval =
                          ~(rec.dismissModalErrorCount + 1 > maxDismissModalErrorCount)])
  /\ UNCHANGED <<joinVars, gateVars, sideVars>>

\* getWaitingPromise(processingTime + duration): its own timer resolves it;
\* it is due after the duration-cap timer of the page
WaitingPromiseTimeout ==
  /\ pc = "recording"
  /\ rec.waitingPromise = "pending"
  /\ ~rec.timeoutId
  /\ rec' = [rec EXCEPT !.waitingPromise = "resolved"]
  /\ UNCHANGED <<joinVars, gateVars, sideVars>>

\* waitingPromise is resolved: the browser is closed, recordMeetingPage
\* returns and joinMeeting appends finished
RecordingDone ==
  /\ pc = "recording"
  /\ rec.waitingPromise = "resolved"
  /\ browserOpen' = FALSE
  /\ state' = Append(state, "finished")
  /\ pc' = "upload"
  /\ UNCHANGED <<reported, error, thrown, uploadResult, googleMeetPageStatus, bodyText, handlers, gateVars, rec, sideVars>>

\* ------------------------------------------------------------- join, the end
UploadResults == {"true", "false", "throws"}

\* the rewrite without its test of the upload result
DowngradeAlways(st, result) ==
  IF includes(st, "finished")
    THEN splice(st, indexOf(st, "finished"), "failed")
    ELSE st

\* the rewrite of join after the upload: finished becomes failed
Downgrade(st, result) ==
  IF includes(st, "finished") /\ result = "false"
    THEN splice(st, indexOf(st, "finished"), "failed")
    ELSE st

\* patchBotStatus: the history is handed to the status collaborator
patchBotStatus(st) == Append(reported, st)

\* handleUpload returns (or the uploader rejects), the history is rewritten
\* and reported
Upload ==
  /\ pc = "upload"
  /\ uploadResult' \in UploadResults
  /\ IF uploadResult' = "throws"
       THEN /\ Throw(PlainError)
            /\ UNCHANGED <<state, reported>>
       ELSE /\ state' = Downgrade(state, uploadResult')
            /\ reported' = patchBotStatus(state')
            /\ pc' = "report"
            /\ error' = error
  /\ UNCHANGED <<thrown, googleMeetPageStatus, bodyText, handlers, browserOpen, gateVars, rec, sideVars>>

\* patchBotStatus returns and so does join
Report ==
  /\ pc = "report"
  /\ pc' = "returned"
  /\ UNCHANGED <<state, reported, error, thrown, uploadResult, googleMeetPageStatus, bodyText, handlers, browserOpen, gateVars, rec, sideVars>>

\* the catch without its test for finished
FailedAlways(st) == Append(st, "failed")

\* the history after the catch of join
Failed(st) == IF ~includes(st, "finished") THEN Append(st, "failed") ELSE st

\* the admission-failure handler called for every error
HandlersForAny(e) ==
  <<"handleWaitingAtLobbyError">>
  \o (IF e.kind = "UnsupportedMeetingError" THEN <<"handleUnsupportedMeetingError">> ELSE <<>>)

\* the handler the catch of join calls for error e, as a sequence
HandlersFor(e) ==
  (IF e.kind = "WaitingAtLobbyRetryError" THEN <<"handleWaitingAtLobbyError">> ELSE <<>>)
  \o (IF e.kind = "UnsupportedMeetingError" THEN <<"handleUnsupportedMeetingError">> ELSE <<>>)

\* the catch of join: the live connection is closed, failed is appended, the
\* history reported, the handler called, the error thrown again
Catch ==
  /\ pc = "catch"
  /\ \E finishThrows \in BOOLEAN :
       deepgram' = (IF deepgram.id
                      THEN [closeLiveConnection(deepgram, finishThrows)
                              EXCEPT !.reportsAtClose = Len(reported)]
                      ELSE deepgram)
  /\ state' = Failed(state)
  /\ reported' = patchBotStatus(state')
  /\ handlers' = handlers \o HandlersFor(error)
  /\ thrown' = error
  /\ pc' = "threw"
  /\ UNCHANGED <<error, uploadResult, googleMeetPageStatus, bodyText, browserOpen, gateVars, rec, retry, cap, speak, respond, bridge, validity, gotIt, tts, stt, live>>

\* ------------------------------------------------------------ specification
Next ==
  \/ Launch
  \/ Verify
  \/ NameInput
  \/ AskToJoin
  \/ WaitIntervalFire
  \/ WaitTimeoutFire
  \/ PollReturns
  \/ LobbyBody
  \/ LobbyCatch
  \/ GotIt
  \/ Greeting
  \/ Listening
  \/ RecordSetup
  \/ DurationCap
  \/ PresenceStart
  \/ LoneTestCheck
  \/ SilenceStart
  \/ MonitorSilence
  \/ ValidPageCheck
  \/ DismissModals
  \/ WaitingPromiseTimeout
  \/ RecordingDone
  \/ Upload
  \/ Report
  \/ Catch

Spec == Init /\ [][Next]_vars

\* the steps that a live page and a live host take sooner or later: the
\* duration-cap timer fires, the timer of waitingPromise fires, an awaited
\* promise that is resolved is resumed, the uploader and the status call return
Fairness ==
  /\ WF_vars(DurationCap)
  /\ WF_vars(WaitingPromiseTimeout)
  /\ WF_vars(RecordingDone)
  /\ WF_vars(Upload)
  /\ WF_vars(Report)
  /\ WF_vars(Catch)

\* no fairness for the monitors: each of them may never act
SpecLive == Spec /\ Fairness

\* ------------------------------------------------- retryActionWithWait, alone
\* a call of retryActionWithWait on an action that fails k times, then succeeds
RetryCalls ==
  [pc : {"action"},
   k : 0..MaxFailures,
   maxAttempts : 1..MaxRetryAttempts,
   waitMs : {0, RetryWaitMs},
   hook : BOOLEAN,
   attempts : {0}, hooks : {0}, waited : {0}, failedLast : {FALSE}, error : {0}]

\* a retry that takes one attempt too many
attemptsRemainOneMore(r) == r.attempts <= r.maxAttempts

\* "if attempts remain", after a failed run of the action
attemptsRemain(r) == r.attempts < r.maxAttempts

\* the action is run once more: it succeeds, or fails with attempts left, or
\* fails for good and its error is thrown
RetryAction ==
  /\ retry.pc = "action"
  /\ LET r == [retry EXCEPT !.attempts = @ + 1, !.failedLast = (retry.attempts + 1 <= retry.k)]
     IN retry' = IF ~r.failedLast THEN [r EXCEPT !.pc = "returned"]
                 ELSE IF attemptsRemain(r) THEN [r EXCEPT !.pc = "onFailure"]
                 ELSE [r EXCEPT !.pc = "threw", !.error = r.attempts]
  /\ UNCHANGED <<joinVars, gateVars, rec, cap, speak, deepgram, respond, bridge, validity, gotIt, tts, stt, live>>

\* the diagnostic hook, when one was passed
RetryOnFailure ==
  /\ retry.pc = "onFailure"
  /\ retry' = [retry EXCEPT !.hooks = IF retry.hook THEN @ + 1 ELSE @, !.pc = "wait"]
  /\ UNCHANGED <<joinVars, gateVars, rec, cap, speak, deepgram, respond, bridge, validity, gotIt, tts, stt, live>>

\* the wait of waitMs before the next attempt
RetryWait ==
  /\ retry.pc = "wait"
  /\ retry' = [retry EXCEPT !.waited = @ + retry.waitMs, !.pc = "action"]
  /\ UNCHANGED <<joinVars, gateVars, rec, cap, speak, deepgram, respond, bridge, validity, gotIt, tts, stt, live>>

NextRetry ==
  \/ RetryAction
  \/ RetryOnFailure
  \/ RetryWait

InitRetry ==
  /\ JoinInit
  /\ retry \in RetryCalls
  /\ cap = NoCapture
  /\ speak = NoSpeak
  /\ deepgram = NoDeepgram
  /\ respond = NoRespond
  /\ bridge = NoBridge
  /\ validity = NoValidity
  /\ gotIt = NoGotIt
  /\ tts = NoTts
  /\ stt = NoStt
  /\ live = NoLive

SpecRetry == InitRetry /\ [][NextRetry]_vars

\* ---------------------------------------------------- the capture path, alone
\* The transcripts come from the batches sent through __processAudioChunk or
\* from the recognition of the microphone.  The streaming connection yields
\* none: __sendAudioToDeepgram has no caller, so no audio reaches it.
\* the time one buffer of bufferSize samples takes, in ms
BufferMs == (bufferSize * 1000) \div sampleRate

\* the capture path is followed up to this time
Horizon == MaxChecks * CheckMs

nextBufferAt(c) == (c.buffers + 1) * BufferMs
nextCheckAt(c) == (c.checks + 1) * CheckMs

\* calls of __triggerBotResponse in progress
Responding(c) == c.respBatch + c.respMic

\* the timer due at time t is the next to fire
IsNext(c, t) ==
  /\ t <= Horizon
  /\ \A d \in c.cooldowns : t <= d
  /\ c.strategy = "remote" => (t <= nextBufferAt(c) /\ t <= nextCheckAt(c))

InitCapture ==
  /\ JoinInit
  /\ retry = NoRetry
  /\ cap = [NoCapture EXCEPT !.strategy = "locating", !.attemptAt = RetryCaptureMs]
  /\ speak = NoSpeak
  /\ deepgram = NoDeepgram
  /\ respond = NoRespond
  /\ bridge = NoBridge
  /\ validity = NoValidity
  /\ gotIt = NoGotIt
  /\ tts = NoTts
  /\ stt = NoStt
  /\ live = NoLive

\* startMicrophoneRecognition
startMicrophoneRecognition(c) ==
  [c EXCEPT !.strategy = "mic", !.micStarts = @ + 1, !.retryCount = 0, !.attemptAt = 0]

\* a tryCaptureAndTranscribe that gives up after one more failure
tryCaptureAndTranscribeOneMore(c, found) ==
  IF ~found
    THEN IF c.retryCount + 1 <= maxRetries
           THEN [c EXCEPT !.retryCount = @ + 1, !.attemptAt = @ + RetryCaptureMs]
           ELSE startMicrophoneRecognition(c)
    ELSE [c EXCEPT !.strategy = "remote", !.intervalStarts = @ + 1,
                   !.retryCount = 0, !.attemptAt = 0]

\* tryCaptureAndTranscribe, with captureRemoteAudio returning a stream or null
\* (it catches its own errors).  With a stream the PCM capture is set up and
\* the clock of the capture starts.
tryCaptureAndTranscribe(c, found) ==
  IF ~found
    THEN IF c.retryCount + 1 < maxRetries
           THEN [c EXCEPT !.retryCount = @ + 1, !.attemptAt = @ + RetryCaptureMs]
           ELSE startMicrophoneRecognition(c)
    ELSE [c EXCEPT !.strategy = "remote", !.intervalStarts = @ + 1,
                   !.retryCount = 0, !.attemptAt = 0]

\* the timer of an attempt to capture remote audio fires
TryCapture ==
  /\ cap.strategy = "locating"
  /\ \E found \in BOOLEAN : cap' = tryCaptureAndTranscribe(cap, found)
  /\ UNCHANGED <<joinVars, gateVars, rec, retry, speak, deepgram, respond, bridge, validity, gotIt, tts, stt, live>>

\* scriptProcessor.onaudioprocess on a buffer that is active or not
onaudioprocess(c, active) ==
  [c EXCEPT
     !.now = nextBufferAt(c),
     !.buffers = @ + 1,
     !.totalSamples = @ + bufferSize,
     !.lastAudioActivityTime = IF active THEN nextBufferAt(c) ELSE @,
     !.activeAt = IF active THEN nextBufferAt(c) ELSE @,
     !.loudEnd = IF ~active THEN @
                 ELSE IF c.loudEnd = c.buffers * BufferMs THEN nextBufferAt(c)
                 ELSE -1]

CaptureBuffer ==
  /\ cap.strategy = "remote"
  /\ IsNext(cap, nextBufferAt(cap))
  /\ \E active \in BOOLEAN : cap' = onaudioprocess(cap, active)
  /\ UNCHANGED <<joinVars, gateVars, rec, retry, speak, deepgram, respond, bridge, validity, gotIt, tts, stt, live>>

\* a check without the minimum of 2 seconds of samples
transcriptionIntervalNoMinimum(c) ==
  LET t == nextCheckAt(c)
      c1 == [c EXCEPT !.now = t, !.checks = @ + 1]
  IN IF c.isSpeaking THEN c1
     ELSE IF c.totalSamples = 0 THEN c1
     ELSE IF t - c.lastTranscriptionTime < MinGapMs THEN c1
     ELSE IF t - c.lastAudioActivityTime > ActivityWindowMs
       THEN [c1 EXCEPT !.totalSamples = 0, !.sentSamples = 0, !.discarded = @ + 1]
     ELSE [c1 EXCEPT !.lastTranscriptionTime = t,
                     !.sentSamples = c.totalSamples,
                     !.pending = @ + 1,
                     !.submitted = @ + 1]

\* the callback of transcriptionInterval up to its await of
\* __processAudioChunk; the encoding of the batch does not throw
transcriptionInterval(c) ==
  LET t == nextCheckAt(c)
      c1 == [c EXCEPT !.now = t, !.checks = @ + 1]
  IN IF c.isSpeaking THEN c1
     ELSE IF c.totalSamples = 0 THEN c1
     ELSE IF c.totalSamples < minSamples \/ t - c.lastTranscriptionTime < MinGapMs THEN c1
     ELSE IF t - c.lastAudioActivityTime > ActivityWindowMs
       THEN [c1 EXCEPT !.totalSamples = 0, !.sentSamples = 0, !.discarded = @ + 1]
     ELSE [c1 EXCEPT !.lastTranscriptionTime = t,
                     !.sentSamples = c.totalSamples,
                     !.pending = @ + 1,
                     !.submitted = @ + 1]

CaptureCheck ==
  /\ cap.strategy = "remote"
  /\ IsNext(cap, nextCheckAt(cap))
  /\ cap.pending < MaxPending
  /\ cap' = transcriptionInterval(cap)
  /\ UNCHANGED <<joinVars, gateVars, rec, retry, speak, deepgram, respond, bridge, validity, gotIt, tts, stt, live>>

\* the least trimmed length the batch path passes on: trim().length > 2
MinTranscript == 3

\* what __processAudioChunk resolves to: a transcript of more than 2
\* characters, a shorter one, or success: false
ChunkResults == {"transcript", "short", "failed"}

\* __processAudioChunk returns and the callback of transcriptionInterval goes
\* on to its next await
ProcessAudioChunkReturns ==
  /\ cap.pending > 0
  /\ \E result \in ChunkResults :
       IF result = "transcript"
         THEN /\ Responding(cap) < MaxResponses
              /\ cap' = [cap EXCEPT !.pending = @ - 1,
                                   !.isSpeaking = TRUE,
                                   !.triggerLen = MinTranscript,
                                   !.respBatch = @ + 1]
         ELSE cap' = [cap EXCEPT !.pending = @ - 1, !.totalSamples = 0, !.sentSamples = 0]
  /\ UNCHANGED <<joinVars, gateVars, rec, retry, speak, deepgram, respond, bridge, validity, gotIt, tts, stt, live>>

\* what happens after "await __triggerBotResponse" in the callbacks that set
\* isSpeaking: the cool-down timer is armed, or on a rejection the flag is
\* cleared at once
afterResponse(c, ok) ==
  IF ok THEN [c EXCEPT !.cooldowns = @ \cup {c.now + CooldownMs}]
  ELSE [c EXCEPT !.isSpeaking = FALSE]

\* __triggerBotResponse returns to the callback of transcriptionInterval,
\* which then clears pcmAudioBuffers
BatchResponseReturns ==
  /\ cap.respBatch > 0
  /\ \E ok \in BOOLEAN :
       cap' = [afterResponse(cap, ok) EXCEPT !.respBatch = @ - 1, !.totalSamples = 0,
                                            !.sentSamples = 0]
  /\ UNCHANGED <<joinVars, gateVars, rec, retry, speak, deepgram, respond, bridge, validity, gotIt, tts, stt, live>>

\* the timer that clears isSpeaking 10s after a response
CooldownFires ==
  /\ \E d \in cap.cooldowns :
       /\ IsNext(cap, d)
       /\ cap' = [cap EXCEPT !.now = d, !.cooldowns = @ \ {d}, !.isSpeaking = FALSE]
  /\ UNCHANGED <<joinVars, gateVars, rec, retry, speak, deepgram, respond, bridge, validity, gotIt, tts, stt, live>>

\* lengths of a trimmed transcript
TranscriptLengths == 0..3

\* recognition.onresult on a transcript of trimmed length len
onresult(c, len) ==
  IF c.isSpeaking THEN c
  ELSE IF len < 2 THEN c
  ELSE [c EXCEPT !.isSpeaking = TRUE, !.triggerLen = len, !.respMic = @ + 1]

MicResult ==
  /\ cap.strategy = "mic"
  /\ Responding(cap) < MaxResponses
  /\ \E len \in TranscriptLengths : cap' = onresult(cap, len)
  /\ UNCHANGED <<joinVars, gateVars, rec, retry, speak, deepgram, respond, bridge, validity, gotIt, tts, stt, live>>

\* __triggerBotResponse returns to recognition.onresult
MicResponseReturns ==
  /\ cap.respMic > 0
  /\ \E ok \in BOOLEAN : cap' = [afterResponse(cap, ok) EXCEPT !.respMic = @ - 1]
  /\ UNCHANGED <<joinVars, gateVars, rec, retry, speak, deepgram, respond, bridge, validity, gotIt, tts, stt, live>>

\* stopTheRecording runs in the page while the listening script is alive: it
\* clears the timers of the recording script and touches nothing of the
\* listening script, which goes on until the host has closed the browser
CaptureStop ==
  /\ cap.strategy # "none"
  /\ ~cap.stopped
  /\ cap' = [cap EXCEPT !.stopped = TRUE]
  /\ UNCHANGED <<joinVars, gateVars, rec, retry, speak, deepgram, respond, bridge, validity, gotIt, tts, stt, live>>

NextCapture ==
  \/ TryCapture
  \/ CaptureStop
  \/ CaptureBuffer
  \/ CaptureCheck
  \/ ProcessAudioChunkReturns
  \/ BatchResponseReturns
  \/ CooldownFires
  \/ MicResult
  \/ MicResponseReturns

SpecCapture == InitCapture /\ [][NextCapture]_vars

\* ------------------------------------------------ __triggerBotResponse, alone
\* a call of __triggerBotResponse, for each outcome of the provider and each
\* place where speakInMeeting can fail
RespondCalls ==
  [pc : {"generate"}, provider : ProviderOutcomes, failure : SpeakFailures,
   text : {<<>>}, spoken : {<<>>}]

InitRespond ==
  /\ JoinInit
  /\ retry = NoRetry
  /\ cap = NoCapture
  /\ speak = NoSpeak
  /\ deepgram = NoDeepgram
  /\ respond \in RespondCalls
  /\ bridge = NoBridge
  /\ validity = NoValidity
  /\ gotIt = NoGotIt
  /\ tts = NoTts
  /\ stt = NoStt
  /\ live = NoLive

\* responseText is set: by generateResponse, or to the canned text when the
\* bot has no OpenAIService
RespondGenerate ==
  /\ respond.pc = "generate"
  /\ respond' = [respond EXCEPT
                   !.pc = "speak",
                   !.text = IF respond.provider.kind = "noService" THEN Canned
                            ELSE generateResponse(respond.provider)]
  /\ UNCHANGED <<joinVars, gateVars, rec, retry, cap, speak, deepgram, bridge, validity, gotIt, tts, stt, live>>

\* await speakInMeeting(responseText); were it to throw, the catch would call
\* speakInMeeting again with the canned text
RespondSpeak ==
  /\ respond.pc = "speak"
  /\ respond' = [respond EXCEPT
                   !.pc = "done",
                   !.spoken = IF speakInMeeting(respond.failure).result = "threw"
                                THEN <<respond.text, Canned>>
                                ELSE <<respond.text>>]
  /\ UNCHANGED <<joinVars, gateVars, rec, retry, cap, speak, deepgram, bridge, validity, gotIt, tts, stt, live>>

NextRespond ==
  \/ RespondGenerate
  \/ RespondSpeak

SpecRespond == InitRespond /\ [][NextRespond]_vars

\* ------------------------------------------------- the live connections, alone
InitLive ==
  /\ JoinInit
  /\ retry = NoRetry
  /\ cap = NoCapture
  /\ speak = NoSpeak
  /\ deepgram = NoDeepgram
  /\ respond = NoRespond
  /\ bridge = NoBridge
  /\ validity = NoValidity
  /\ gotIt = NoGotIt
  /\ tts = NoTts
  /\ stt = NoStt
  /\ live = NoLive

LiveCreate ==
  /\ Len(live.connections) < MaxConnections
  /\ \E id \in ConnectionIds : live' = createLiveConnection(live, id)
  /\ UNCHANGED <<joinVars, gateVars, rec, retry, cap, speak, deepgram, respond, bridge, validity, gotIt, tts, stt>>

\* the socket of connection i opens
LiveOpen ==
  /\ \E i \in 1..Len(live.connections) :
       /\ live.connections[i].state = "connecting"
       /\ live' = [live EXCEPT !.connections[i].state = "open"]
  /\ UNCHANGED <<joinVars, gateVars, rec, retry, cap, speak, deepgram, respond, bridge, validity, gotIt, tts, stt>>

\* the socket of connection i closes: after finish(), or from the other side
LiveCloseEvent ==
  /\ \E i \in 1..Len(live.connections) :
       /\ live.connections[i].state # "closed"
       /\ live' = onClose(live, i)
  /\ UNCHANGED <<joinVars, gateVars, rec, retry, cap, speak, deepgram, respond, bridge, validity, gotIt, tts, stt>>

LiveSend ==
  /\ live.sends < MaxSends
  /\ \E id \in ConnectionIds :
       /\ sendToLiveConnection(live, id) # live
       /\ live' = sendToLiveConnection(live, id)
  /\ UNCHANGED <<joinVars, gateVars, rec, retry, cap, speak, deepgram, respond, bridge, validity, gotIt, tts, stt>>

LiveClose ==
  /\ \E id \in ConnectionIds, finishThrows \in BOOLEAN :
       /\ live.liveConnections[id] # 0
       /\ live' = closeLiveConnectionById(live, id, finishThrows)
  /\ UNCHANGED <<joinVars, gateVars, rec, retry, cap, speak, deepgram, respond, bridge, validity, gotIt, tts, stt>>

NextLive ==
  \/ LiveCreate
  \/ LiveOpen
  \/ LiveCloseEvent
  \/ LiveSend
  \/ LiveClose

SpecLiveConnections == InitLive /\ [][NextLive]_vars

\* ------------------------------------------------------- transcribe, alone
\* the bytes of "RIFF", and another one
Bytes == {82, 73, 70, 0}

RECURSIVE Buffers(_)
\* the buffers of up to n bytes
Buffers(n) ==
  IF n = 0 THEN {<<>>}
  ELSE Buffers(n - 1) \cup {Append(b, x) : b \in {q \in Buffers(n - 1) : Len(q) = n - 1}, x \in Bytes}

\* an isWav that does not look at the buffer
isWavAlways(audioBuffer) ==
  TRUE

\* isWav: the buffer starts with "RIFF"
isWav(audioBuffer) ==
  /\ Len(audioBuffer) >= 4
  /\ audioBuffer[1] = 82
  /\ audioBuffer[2] = 73
  /\ audioBuffer[3] = 70
  /\ audioBuffer[4] = 70

\* what transcribeFile can resolve to: nothing, an error, no result, no
\* results, an empty array of results, or a first result with a transcript
Responses ==
  {[kind |-> k, transcript |-> <<>>] : k \in {"null", "error", "noResult", "noResults", "noFirst"}}
  \cup {[kind |-> "transcript", transcript |-> t] : t \in {<<>>, <<" ">>, <<"a">>, <<" ", "a">>}}

\* an attempt rejects, or resolves to a response
AttemptOutcomes == {[kind |-> "throws", transcript |-> <<>>]} \cup Responses

\* the format tried after format f when the attempt did not set response:
\* plain WebM is tried only in the catch of WebM/Opus
nextFormat(f, threw) ==
  CASE f = "wav" -> "opus"
    [] f = "opus" -> IF threw THEN "webm" ELSE "auto"
    [] f = "webm" -> "auto"
    [] OTHER -> "none"

\* transcribe from the first test of the response on
transcriptOf(response) ==
  IF response.kind \in {"null", "error", "noResult", "noResults", "noFirst"} THEN <<>>
  ELSE IF response.transcript = <<>> \/ Len(trim(response.transcript)) = 0 THEN <<>>
  ELSE response.transcript

InitStt ==
  /\ JoinInit
  /\ retry = NoRetry
  /\ cap = NoCapture
  /\ speak = NoSpeak
  /\ deepgram = NoDeepgram
  /\ respond = NoRespond
  /\ bridge = NoBridge
  /\ validity = NoValidity
  /\ gotIt = NoGotIt
  /\ tts = NoTts
  /\ \E audioBuffer \in Buffers(MaxBuffer), service \in BOOLEAN :
       stt = [NoStt EXCEPT !.pc = "called", !.service = service, !.audioBuffer = audioBuffer]
  /\ live = NoLive

\* __processAudioChunk up to the first attempt of transcribe
SttCall ==
  /\ stt.pc = "called"
  /\ stt' = IF ~stt.service
              THEN [stt EXCEPT !.pc = "done", !.result = [success |-> FALSE, transcript |-> <<>>]]
            ELSE IF isWav(stt.audioBuffer) THEN [stt EXCEPT !.pc = "wav"]
            ELSE [stt EXCEPT !.pc = "opus"]
  /\ UNCHANGED <<joinVars, gateVars, rec, retry, cap, speak, deepgram, respond, bridge, validity, gotIt, tts, live>>

\* one await of transcribeFile and what follows it up to the next await
SttAttempt ==
  /\ stt.pc \in {"wav", "opus", "webm", "auto"}
  /\ \E o \in AttemptOutcomes :
       LET s == [stt EXCEPT !.tried = Append(@, stt.pc),
                            !.last = IF o.kind \in {"throws", "null"} THEN o.kind
                                     ELSE "response"]
           unset == o.kind \in {"throws", "null"}
       IN stt' =
            IF ~unset THEN [s EXCEPT !.pc = "respond", !.response = o]
            ELSE IF stt.pc # "auto" THEN [s EXCEPT !.pc = nextFormat(stt.pc, o.kind = "throws")]
            ELSE IF o.kind = "throws"
              THEN \* thrown again by both catches, caught by the call site
                   [s EXCEPT !.pc = "done", !.transcribed = "threw",
                             !.result = [success |-> FALSE, transcript |-> <<>>]]
            ELSE \* if (!response) return ''
                 [s EXCEPT !.pc = "done", !.transcribed = "returned",
                           !.result = [success |-> TRUE, transcript |-> <<>>]]
  /\ UNCHANGED <<joinVars, gateVars, rec, retry, cap, speak, deepgram, respond, bridge, validity, gotIt, tts, live>>

\* the response is read and the call returns
SttRespond ==
  /\ stt.pc = "respond"
  /\ stt' = [stt EXCEPT !.pc = "done", !.transcribed = "returned",
                        !.result = [success |-> TRUE, transcript |-> transcriptOf(stt.response)]]
  /\ UNCHANGED <<joinVars, gateVars, rec, retry, cap, speak, deepgram, respond, bridge, validity, gotIt, tts, live>>

NextStt ==
  \/ SttCall
  \/ SttAttempt
  \/ SttRespond

SpecStt == InitStt /\ [][NextStt]_vars

\* ---------------------------------------- speakInMeeting, calls that overlap
InitTts ==
  /\ JoinInit
  /\ retry = NoRetry
  /\ cap = NoCapture
  /\ speak = NoSpeak
  /\ deepgram = NoDeepgram
  /\ respond = NoRespond
  /\ bridge = NoBridge
  /\ validity = NoValidity
  /\ gotIt = NoGotIt
  /\ tts = NoTts
  /\ stt = NoStt
  /\ live = NoLive

\* __triggerBotResponse calls speakInMeeting: textToSpeech is awaited
TtsSpeak(c) ==
  /\ tts.call[c].pc = "idle"
  /\ tts' = [tts EXCEPT !.call[c].pc = "textToSpeech"]
  /\ UNCHANGED <<joinVars, gateVars, rec, retry, cap, speak, deepgram, respond, bridge, validity, gotIt, stt, live>>

\* textToSpeech returns and the stream is created in the page, or either fails
TtsCreate(c) ==
  /\ tts.call[c].pc = "textToSpeech"
  /\ \E ok \in BOOLEAN :
       tts' = IF ok THEN createTtsStream(tts, c)
              ELSE [tts EXCEPT !.call[c].pc = "done"]
  /\ UNCHANGED <<joinVars, gateVars, rec, retry, cap, speak, deepgram, respond, bridge, validity, gotIt, stt, live>>

\* after the microphone was toggled, playback is started in the page
TtsPlay(c) ==
  /\ tts.call[c].pc = "created"
  /\ tts' = playTtsStream(tts, c)
  /\ UNCHANGED <<joinVars, gateVars, rec, retry, cap, speak, deepgram, respond, bridge, validity, gotIt, stt, live>>

\* onended of the source that the call started
TtsEnded(c) ==
  /\ tts.call[c].pc = "playing"
  /\ tts' = [tts EXCEPT !.call[c].pc = "done", !.call[c].success = TRUE]
  /\ UNCHANGED <<joinVars, gateVars, rec, retry, cap, speak, deepgram, respond, bridge, validity, gotIt, stt, live>>

NextTts ==
  \E c \in SpeakCalls :
    \/ TtsSpeak(c)
    \/ TtsCreate(c)
    \/ TtsPlay(c)
    \/ TtsEnded(c)

SpecTts == InitTts /\ [][NextTts]_vars

\* ---------------------------------------------------- the "Got it" loop, alone
InitGotIt ==
  /\ JoinInit
  /\ retry = NoRetry
  /\ cap = NoCapture
  /\ speak = NoSpeak
  /\ deepgram = NoDeepgram
  /\ respond = NoRespond
  /\ bridge = NoBridge
  /\ validity = NoValidity
  /\ gotIt = [NoGotIt EXCEPT !.pc = "waitForSelector"]
  /\ tts = NoTts
  /\ stt = NoStt
  /\ live = NoLive

\* await page.waitForSelector('button:has-text("Got it")', {timeout: 15000}):
\* a button shows up, or the wait rejects and the catch ends the block
GotItWait ==
  /\ gotIt.pc = "waitForSelector"
  /\ \E found \in BOOLEAN :
       gotIt' = IF found THEN [gotIt EXCEPT !.pc = "loop"]
                ELSE [gotIt EXCEPT !.pc = "done", !.exit = "caught"]
  /\ UNCHANGED <<joinVars, gateVars, rec, retry, cap, speak, deepgram, respond, bridge, validity, tts, stt, live>>

\* one iteration: the locator returns the visible buttons, or rejects
GotItIteration ==
  /\ gotIt.pc = "loop"
  /\ \/ \E currentButtonCount \in 0..MaxVisible :
          \E clicked \in 0..currentButtonCount :
            gotIt' = gotItIteration(gotIt, currentButtonCount, clicked)
     \/ gotIt' = [gotIt EXCEPT !.pc = "done", !.exit = "caught"]
  /\ UNCHANGED <<joinVars, gateVars, rec, retry, cap, speak, deepgram, respond, bridge, validity, tts, stt, live>>

NextGotIt ==
  \/ GotItWait
  \/ GotItIteration

\* every await of the loop returns or rejects in bounded time: the locator,
\* the clicks (timeout 5000) and the waits of 2000 ms
SpecGotIt ==
  InitGotIt /\ [][NextGotIt]_vars /\ WF_vars(GotItWait) /\ WF_vars(GotItIteration)

\* ------------------------------------------------ the page-validity check, alone
\* startRecording has returned and recordMeetingPage awaits the end
InitPage ==
  /\ pc = "recording"
  /\ state = <<"processing", "joined">>
  /\ reported = <<>>
  /\ error = NoError
  /\ thrown = NoError
  /\ uploadResult = "none"
  /\ bodyText = "unread"
  /\ handlers = <<>>
  /\ browserOpen = TRUE
  /\ waiting = "true"
  /\ waitTimeout = FALSE
  /\ waitInterval = FALSE
  /\ elapsed = 0
  /\ polls = 0
  /\ inFlight = {}
  /\ outcome = "Admitted"
  /\ gate = NoGate
  /\ \E hasAudio \in BOOLEAN, throws \in BOOLEAN : rec = Started(hasAudio, throws)
  /\ googleMeetPageStatus = "unset"
  /\ retry = NoRetry
  /\ cap = NoCapture
  /\ speak = NoSpeak
  /\ deepgram = NoDeepgram
  /\ respond = NoRespond
  /\ bridge = NoBridge
  /\ validity = NoValidity
  /\ gotIt = NoGotIt
  /\ tts = NoTts
  /\ stt = NoStt
  /\ live = NoLive

\* a run of the interval's callback
PageCheck ==
  /\ PageAlive
  /\ rec.isOnValidGoogleMeetPageInterval
  /\ validity.runs < MaxPageChecks
  /\ \E page \in PageStates :
       /\ rec' = validPageCallback(rec, page)
       /\ validity' = [page |-> page,
                    runs |-> validity.runs + 1,
                    stops |-> validity.stops + (rec'.stopCalls - rec.stopCalls)]
  /\ UNCHANGED <<joinVars, gateVars, retry, cap, speak, deepgram, respond, bridge, gotIt, tts, stt, live>>

NextPage ==
  \/ PageCheck
  \/ DurationCap
  \/ screenAppSendData

SpecPage == InitPage /\ [][NextPage]_vars

\* ------------------------------------------- the recording and its last chunk
\* the recording from startRecording on, with the chunk that
\* mediaRecorder.stop() emits; the timer of waitingPromise is left out, the
\* first stop of a started recorder resolves the promise before it is due
NextChunk ==
  \/ DurationCap
  \/ screenAppSendData
  \/ PresenceStart
  \/ LoneTestCheck
  \/ SilenceStart
  \/ MonitorSilence
  \/ ValidPageCheck
  \/ DismissModals
  \/ RecordingDone
  \/ Upload
  \/ Report
  \/ Catch

SpecChunk == InitPage /\ [][NextChunk]_vars

\* ------------------------------------------------------ the host bridge, alone
InitBridge ==
  /\ JoinInit
  /\ retry = NoRetry
  /\ cap = NoCapture
  /\ speak = NoSpeak
  /\ deepgram = NoDeepgram
  /\ respond = NoRespond
  /\ \E id \in Ids :
       bridge = [NoBridge EXCEPT !.slightlySecretId = id, !.waitingPromise = "pending"]
  /\ validity = NoValidity
  /\ gotIt = NoGotIt
  /\ tts = NoTts
  /\ stt = NoStt
  /\ live = NoLive

\* history of a call with the given id
called(b, id) ==
  [b EXCEPT !.calls = @ + 1,
            !.foreign = IF id # b.slightlySecretId THEN @ + 1 ELSE @]

\* the page calls screenAppSendData with some id and some chunk
BridgeSendData ==
  /\ bridge.waitingPromise # "none"
  /\ bridge.calls < MaxBridgeCalls
  /\ \E id \in Ids, data \in ChunkData :
       bridge' = [called(sendData(bridge, id, data), id) EXCEPT
                    !.ownSent = IF id = bridge.slightlySecretId THEN Append(@, data) ELSE @]
  /\ UNCHANGED <<joinVars, gateVars, rec, retry, cap, speak, deepgram, respond, validity, gotIt, tts, stt, live>>

\* the page calls screenAppMeetEnd with some id
BridgeMeetEnd ==
  /\ bridge.waitingPromise # "none"
  /\ bridge.calls < MaxBridgeCalls
  /\ \E id \in Ids :
       bridge' = [called(meetEnd(bridge, id), id) EXCEPT
                    !.ownEnds = IF id = bridge.slightlySecretId THEN @ + 1 ELSE @]
  /\ UNCHANGED <<joinVars, gateVars, rec, retry, cap, speak, deepgram, respond, validity, gotIt, tts, stt, live>>

NextBridge ==
  \/ BridgeSendData
  \/ BridgeMeetEnd

SpecBridge == InitBridge /\ [][NextBridge]_vars

\* ===================================================================== claims
Terminal == {"finished", "failed"}

\* how many elements of history h are terminal milestones
TerminalCount(h) == Cardinality({i \in 1..Len(h) : h[i] \in Terminal})

\* the poll that settled the lobby wait has just returned
JustSettled == gate.n # 0 /\ ~gate.late /\ gate.branch # "continue"

\* C1: the cleanup of stopTheRecording (tracks stopped, timers cleared,
\* meeting-end signalled to the host) runs at most once in a session, however
\* many triggers call it.
C1_StopCleanupOnce ==
  /\ rec.tracksStopped <= 1
  /\ rec.timersCleared <= 1
  /\ rec.meetEnd <= 1

C3_DowngradeOnFalsyUpload ==
  /\ [](pc \in {"report", "returned"} =>
         /\ uploadResult = "false" =>
              reported = << <<"processing", "joined", "failed">> >>
         /\ uploadResult = "true" =>
              reported = << <<"processing", "joined", "finished">> >>)
  /\ [][\/ /\ Len(state') >= Len(state)
            /\ SubSeq(state', 1, Len(state)) = state
         \/ /\ pc = "upload" /\ uploadResult' = "false"
            /\ Len(state') = Len(state)
            /\ \A i \in 1..Len(state) :
                 state'[i] = (IF state[i] = "finished" THEN "failed" ELSE state[i])]_vars

C3_Witness ==
  /\ pc = "returned"
  /\ uploadResult = "false"
  /\ state = <<"processing", "joined", "failed">>

\* C4: when a step of join throws, failed is appended exactly when finished
\* is not in the history, the history is reported, the handler of the error's
\* class is called exactly once (none for any other error), and join throws
\* the error it caught.
C4_CatchReportsAndRethrows ==
  pc = "threw" =>
    /\ includes(state, "finished") => TerminalCount(state) = 1
    /\ ~includes(state, "finished") =>
         state[Len(state)] = "failed" /\ TerminalCount(state) = 1
    /\ reported = <<state>>
    /\ error.kind = "WaitingAtLobbyRetryError" => handlers = <<"handleWaitingAtLobbyError">>
    /\ error.kind = "UnsupportedMeetingError" => handlers = <<"handleUnsupportedMeetingError">>
    /\ error.kind = "Error" => handlers = <<>>
    /\ error # NoError
    /\ thrown = error

C4_Witness ==
  /\ pc = "threw"
  /\ thrown.kind = "WaitingAtLobbyRetryError"
  /\ handlers = <<"handleWaitingAtLobbyError">>
  /\ state = <<"processing", "failed">>

\* C5: the wait is settled as Admitted only by a poll that saw the in-call
\* UI, neither the waiting-for-host nor the request-timed-out text, and a
\* participant number >= 1 (a label showing 0 is not enough), and only when
\* no denial text was seen in that poll or before.
C5_AdmittedOnlyOnCount ==
  (JustSettled /\ outcome = "Admitted") =>
    /\ gate.page.baseline
    /\ ~gate.page.hostText
    /\ ~gate.page.timeoutText
    /\ \E i \in 1..Len(gate.page.buttons) : gate.page.buttons[i] >= 1
    /\ ~gate.page.denied
    /\ ~gate.deniedSeen

\* C6: a poll that returns with the denial text visible while the wait is
\* not settled settles it as Denied in that same poll, with or without the
\* in-call UI; the wait is never Admitted once a denial text was visible.
C6_DenialEndsTheWait ==
  /\ (gate.n # 0 /\ ~gate.late /\ gate.page.denied) =>
       (outcome = "Denied" /\ ~waitInterval /\ ~waitTimeout /\ waiting = "false")
  /\ (JustSettled /\ outcome = "Admitted") => ~gate.deniedSeen

\* C7 as it was stated: the admission failure is retryable exactly when the
\* wait ended as TimedOut and not retryable exactly when it ended as Denied.
C7_RetryableFollowsOutcome ==
  (pc = "threw" /\ thrown.kind = "WaitingAtLobbyRetryError") =>
    /\ outcome \in {"Denied", "TimedOut"}
    /\ thrown.retryable <=> (outcome = "TimedOut")

\* C7, amended: after a failed wait join throws an admission failure whose
\* retryable flag is false exactly when the body text read after the wait
\* holds the denial text, whatever branch ended the wait, and whose attempt is
\* the constant 2; when reading the body text throws, that error is thrown.
C7_RetryableFollowsBodyText ==
  pc = "threw" /\ outcome \in {"Denied", "TimedOut"} =>
    IF bodyText = "throws"
      THEN thrown = PlainError
      ELSE /\ thrown.kind = "WaitingAtLobbyRetryError"
           /\ thrown.retryable <=> (bodyText # "denied")
           /\ thrown.attempt = LobbyAttempt

C7_Witness ==
  /\ pc = "threw"
  /\ outcome = "TimedOut"
  /\ bodyText = "denied"
  /\ thrown = WaitingAtLobbyRetryError(FALSE, LobbyAttempt)

\* C8: the wait is settled once: when the timeout fires with a poll in
\* flight the outcome is TimedOut and stays so, joined is never appended, and
\* once the wait is settled no poll starts and no poll's return changes it.
C8_SettledOnce ==
  /\ [](gate.racedTimeout =>
         /\ outcome = "TimedOut"
         /\ waiting = "false"
         /\ ~includes(state, "joined"))
  /\ [][outcome # "None" =>
          /\ outcome' = outcome
          /\ waiting' = waiting
          /\ inFlight' \subseteq inFlight
          /\ ~waitInterval' /\ ~waitTimeout']_vars

C8_Witness ==
  /\ gate.racedTimeout
  /\ gate.late
  /\ gate.branch = "admit"
  /\ outcome = "TimedOut"

\* the scenario of C9: the first three polls returned on no cues at all and
\* the fourth returned on the in-call UI with a participant number >= 1
Scenario4thPoll ==
  /\ gate.n = 4 /\ ~gate.late
  /\ gate.quiet = 3
  /\ gate.confirmed

\* C9 as it was stated: in that scenario the wait is Admitted by the fourth
\* poll, 60s after the wait began.
C9_AdmittedAt60s ==
  Scenario4thPoll => (outcome = "Admitted" /\ gate.at = 60)

\* C9, amended: in that scenario the wait is Admitted by the fourth poll,
\* which starts 80s after the wait began (the interval first fires one
\* interval after it is armed), and by no earlier poll.
C9_AdmittedAt80s ==
  Scenario4thPoll => (outcome = "Admitted" /\ gate.at = 80)

C9_Witness ==
  /\ Scenario4thPoll
  /\ outcome = "Admitted"
  /\ gate.page.buttons = <<1>>
  /\ pc = "gotIt"

\* C10: the capture path, the monitors and the recorder start only after
\* the wait was Admitted and joined was appended; finished is appended only
\* after joined and after the recorder stopped; nothing is recorded after
\* Denied or TimedOut.
C10_RecordingOnlyAfterJoined ==
  /\ (pc \in {"listening", "recordSetup", "recording"} \/ rec # NoRecording) =>
       (outcome = "Admitted" /\ includes(state, "joined"))
  /\ includes(state, "finished") =>
       /\ includes(state, "joined")
       /\ indexOf(state, "joined") < indexOf(state, "finished")
       /\ rec.recorder # "recording"
  /\ outcome \in {"Denied", "TimedOut"} => rec = NoRecording

C10_Witness ==
  /\ includes(state, "finished")
  /\ rec.recorder = "inactive"
  /\ rec.tracksStopped = 1
  /\ ~rec.loneTest /\ rec.loneTestDetectionActive = FALSE

\* C11: the accumulated silence is always 100ms times the number of readings
\* below the threshold since the last reading that was not below it (which
\* set it to 0); the silence monitor asks for the stop at the first reading
\* at which that silence is >= inactivityLimit, at no earlier reading, and
\* takes no reading after that.
C11_SilenceStopsAtLimit ==
  /\ rec.silenceDuration = SampleMs * rec.run
  /\ rec.silenceStops = (IF rec.silenceDuration >= inactivityLimit THEN 1 ELSE 0)
  /\ rec.silenceDuration <= inactivityLimit
  /\ rec.silenceStops = 1 => (~rec.monitor /\ ~rec.silenceTimer /\ rec.stopCalls >= 1)

C11_Witness ==
  /\ rec.silenceStops = 1
  /\ rec.run = InactivityLimitSamples
  /\ rec.silenceDuration = inactivityLimit
  /\ rec.stopCalls = 1

\* C12: on a participant number read by the presence monitor the stop is
\* asked for if and only if the number is < 2; after a number >= 2 the next
\* poll is armed 5s later (and stays armed while nothing stops the recording
\* and no undefined read follows); after asking for the stop the monitor has
\* no timer armed and never polls again.
C12_AloneBelowTwo ==
  /\ [](/\ rec.presenceStops = (IF rec.lastRead \in {0, 1} THEN 1 ELSE 0)
        /\ (rec.lastRead >= 2 /\ rec.unknownRun = 0 /\ rec.stopCalls = 0) =>
              (rec.loneTest /\ rec.loneTestDelay = LoneTestDelayMs)
        /\ rec.presenceStops = 1 =>
              /\ rec.stopCalls >= 1
              /\ ~rec.loneTest /\ ~rec.inactivityParticipantDetectionTimeout
              /\ ~rec.loneTestDetectionActive)
  /\ [][(rec'.lastRead # rec.lastRead /\ rec'.lastRead >= 2) =>
          /\ rec'.loneTest /\ rec'.loneTestDelay = LoneTestDelayMs
          /\ rec'.stopCalls = rec.stopCalls]_vars
  /\ [][rec.presenceStops = 1 =>
          (rec'.lastRead = rec.lastRead /\ rec'.presenceStops = 1)]_vars

C12_Witness ==
  /\ rec.lastRead = 1
  /\ rec.presenceStops = 1
  /\ rec.stopCalls = 1
  /\ rec.recorder = "inactive"

\* C13: the presence monitor is disabled exactly when 10 undefined reads were
\* evaluated in a row (a number in between starts the count again) or when it
\* asked for the stop; the tenth undefined read stops nothing; once disabled
\* no read is evaluated any more.
C13_DisabledAfterTenUnknown ==
  /\ [](/\ ~rec.loneTestDetectionActive <=>
              (rec.unknownRun >= maxDetectionFailures \/ rec.presenceStops = 1)
        /\ rec.unknownRun <= maxDetectionFailures
        /\ rec.unknownRun = maxDetectionFailures => rec.presenceStops = 0)
  /\ [][(rec'.unknownRun = maxDetectionFailures /\ rec.unknownRun # maxDetectionFailures) =>
          rec'.stopCalls = rec.stopCalls]_vars
  /\ [][rec.unknownRun = maxDetectionFailures =>
          /\ rec'.unknownRun = rec.unknownRun
          /\ rec'.lastRead = rec.lastRead
          /\ rec'.presenceStops = rec.presenceStops
          /\ ~rec'.loneTestDetectionActive]_vars

C13_Witness ==
  /\ rec.unknownRun = maxDetectionFailures
  /\ rec.lastRead = 2
  /\ ~rec.loneTestDetectionActive
  /\ ~rec.loneTest
  /\ rec.recorder = "recording"
  /\ rec.stopCalls = 0

\* the smaller of two numbers
Min(a, b) == IF a < b THEN a ELSE b

\* C14: for an action that fails k times and then succeeds, retry returns
\* after k+1 attempts when maxAttempts > k and throws the error of the last
\* attempt after exactly maxAttempts attempts when maxAttempts <= k; the hook
\* has run once before each retry, min(k, maxAttempts-1) times in all, and
\* never after the last failed attempt; waitMs is waited before each retry.
C14_RetryAttemptsAndHooks ==
  /\ retry.pc = "returned" =>
       /\ retry.maxAttempts > retry.k
       /\ retry.attempts = retry.k + 1
       /\ retry.error = 0
  /\ retry.pc = "threw" =>
       /\ retry.maxAttempts <= retry.k
       /\ retry.attempts = retry.maxAttempts
       /\ retry.error = retry.maxAttempts
  /\ retry.pc \in {"returned", "threw"} =>
       /\ retry.hook => retry.hooks = Min(retry.k, retry.maxAttempts - 1)
       /\ retry.waited = retry.waitMs * Min(retry.k, retry.maxAttempts - 1)
  /\ retry.pc = "action" => (retry.hook => retry.hooks = retry.attempts)
  /\ retry.attempts <= retry.maxAttempts

C14_Witness ==
  /\ retry.pc = "threw"
  /\ retry.k = 3 /\ retry.maxAttempts = 3
  /\ retry.hook /\ retry.hooks = 2
  /\ retry.attempts = 3

\* the scenario of C15: the buffers up to 1.5s held activity (the last of
\* them is the sixth, delivered at 1536ms) and every buffer since was silent
Scenario15 == cap.strategy = "remote" /\ cap.loudEnd = 6 * BufferMs

\* C15 as it was stated: in that scenario nothing is submitted at the first
\* check, and at the second check the batch is discarded for inactivity and
\* not submitted.
C15_DiscardedAtSecondCheck ==
  /\ (Scenario15 /\ cap.checks = 1) => cap.submitted = 0
  /\ (Scenario15 /\ cap.checks = 2) => (cap.submitted = 0 /\ cap.discarded = 1)

\* C15, amended: in that scenario the first check (2s) finds 7 buffers, less
\* than minSamples, and submits nothing; the second check (4s) finds 15
\* buffers, silent ones included, and the last activity 2464ms back, within
\* the 5s window: it submits the batch and discards nothing.
C15_SubmittedAtSecondCheck ==
  /\ (Scenario15 /\ cap.checks = 1) => (cap.submitted = 0 /\ cap.discarded = 0)
  /\ (Scenario15 /\ cap.checks = 1 /\ cap.now = CheckMs) =>
       (cap.totalSamples = 7 * bufferSize /\ cap.totalSamples < minSamples)
  /\ (Scenario15 /\ cap.checks = 2) =>
       /\ cap.submitted = 1 /\ cap.discarded = 0
       /\ cap.lastTranscriptionTime = 2 * CheckMs
       /\ cap.lastTranscriptionTime - cap.lastAudioActivityTime = 2464

C15_Witness ==
  /\ Scenario15
  /\ cap.checks = 2
  /\ cap.buffers = 17
  /\ cap.submitted = 1
  /\ cap.pending = 1

\* C16: at most one response (a call of __triggerBotResponse) is in progress
\* at any time, whichever paths the transcripts come from.
C16_OneResponseAtATime == Responding(cap) <= 1

\* C17: speakInMeeting never throws to its caller: whatever fails in it
\* (no API key, the provider, the stream, the microphone buttons, the
\* playback), the call returns and joinMeeting goes on to its next step.
C17_SpeakNeverThrows ==
  /\ [](speak.failure # "unset" =>
          /\ speak.result = "returned"
          /\ pc = "listening"
          /\ error = NoError
          /\ speak.spoken => speak.failure \in {"none", "micOff"})
  /\ [][pc = "greeting" => pc' \in {"greeting", "listening"}]_vars

C17_Witness ==
  /\ speak.failure = "textToSpeech"
  /\ speak.result = "returned"
  /\ ~speak.spoken
  /\ pc = "listening"

\* C18: once the body of stopTheRecording has run, no monitor of the page acts
\* again: the silence monitor takes no sample, the presence monitor reads no
\* count, the modal loop counts no error, and nothing calls stopTheRecording.
C18_NothingFiresAfterStop ==
  [][rec.timersCleared >= 1 =>
       /\ rec'.run = rec.run
       /\ rec'.silenceDuration = rec.silenceDuration
       /\ rec'.monitor = rec.monitor
       /\ rec'.lastRead = rec.lastRead
       /\ rec'.detectionFailures = rec.detectionFailures
       /\ rec'.dismissModalErrorCount = rec.dismissModalErrorCount
       /\ rec'.stopCalls = rec.stopCalls]_vars

\* C19: the results SIGN_IN_PAGE, UNSUPPORTED_PAGE and null of the page-type
\* check each make join throw UnsupportedMeetingError before the name is
\* entered; only GOOGLE_MEET_PAGE goes on to the name field.
C19_OnlyMeetPageProceeds ==
  /\ googleMeetPageStatus \in {"SIGN_IN_PAGE", "UNSUPPORTED_PAGE", "null"} =>
       /\ error.kind = "UnsupportedMeetingError"
       /\ pc \in {"catch", "threw"}
  /\ pc = "nameInput" => googleMeetPageStatus = "GOOGLE_MEET_PAGE"

\* C20: once recordMeetingPage waits on waitingPromise, join ends (returns or
\* throws) whether or not a monitor ever asks to stop, and as soon as
\* stopTheRecording has called screenAppMeetEnd the wait is over.
C20_RecordingEnds ==
  /\ (pc = "recording") ~> (pc \in {"returned", "threw"})
  /\ [](rec.meetEnd >= 1 => rec.waitingPromise = "resolved")

\* join has returned after the duration cap alone asked to stop
C20_Witness ==
  /\ pc = "returned"
  /\ rec.capStops = 1
  /\ rec.stopCalls = 1
  /\ rec.presenceStops = 0
  /\ rec.silenceStops = 0
  /\ rec.meetEnd = 1
  /\ rec.waitingPromise = "resolved"

\* C21: the silence monitor fails open.  Without an audio track it never
\* starts; once a reading or the set-up of the analyser has thrown it takes no
\* reading any more; and the step in which it gives up neither calls
\* stopTheRecording nor ends join, and leaves the presence monitor and the
\* duration cap as they were.
C21_SilenceFailsOpen ==
  /\ [](rec.silenceOff # "none" =>
          ~rec.monitor /\ ~rec.silenceTimer /\ rec.silenceStops = 0)
  /\ [](~rec.hasAudioTracks =>
          ~rec.monitor /\ ~rec.silenceTimer /\ rec.run = 0 /\ rec.silenceStops = 0)
  /\ [][rec'.silenceOff # rec.silenceOff =>
          /\ rec'.stopCalls = rec.stopCalls
          /\ rec'.meetEnd = rec.meetEnd
          /\ pc' = pc
          /\ error' = error
          /\ rec'.timeoutId = rec.timeoutId
          /\ rec'.inactivityParticipantDetectionTimeout = rec.inactivityParticipantDetectionTimeout
          /\ rec'.loneTest = rec.loneTest
          /\ rec'.loneTestDetectionActive = rec.loneTestDetectionActive]_vars

\* a reading has thrown while the cap and the presence monitor are armed
C21_Witness ==
  /\ rec.silenceOff = "sample"
  /\ rec.run >= 1
  /\ rec.stopCalls = 0
  /\ rec.timeoutId
  /\ rec.loneTest
  /\ pc = "recording"

\* C22: while the grace timer of a monitor is pending the monitor has not
\* run; a monitor that has not run has taken no reading and asked for no stop;
\* and once the body of stopTheRecording has run, a monitor that had not run
\* never does.
C22_NothingBeforeGrace ==
  /\ [](rec.inactivityParticipantDetectionTimeout => ~rec.presenceStarted)
  /\ [](rec.inactivitySilenceDetectionTimeout => ~rec.silenceStarted)
  /\ [](~rec.presenceStarted =>
          /\ rec.lastRead = -2
          /\ rec.unknownRun = 0
          /\ rec.detectionFailures = 0
          /\ rec.presenceStops = 0
          /\ ~rec.loneTest)
  /\ [](~rec.silenceStarted =>
          /\ ~rec.monitor
          /\ ~rec.silenceTimer
          /\ rec.run = 0
          /\ rec.silenceStops = 0
          /\ rec.silenceOff = "none")
  /\ [][rec.timersCleared >= 1 =>
          /\ rec'.presenceStarted = rec.presenceStarted
          /\ rec'.silenceStarted = rec.silenceStarted]_vars

\* the duration cap has stopped the recording before either grace timer
\* fired, and join has gone on to its end
C22_Witness ==
  /\ rec.capStops = 1
  /\ rec.timersCleared = 1
  /\ ~rec.presenceStarted
  /\ ~rec.silenceStarted
  /\ ~rec.inactivityParticipantDetectionTimeout
  /\ ~rec.inactivitySilenceDetectionTimeout
  /\ pc = "returned"

\* C23: a submission check submits the batch only if the responding flag is
\* clear, at least minSamples samples are held, at least 5s have passed since
\* the last submission and an active buffer was seen within the last 5s; a
\* check that has the samples and the interval but no active buffer within 5s
\* drops the batch without submitting; any other failing check leaves the
\* batch as it is.
C23_SubmitOnlyWhenAllHold ==
  [][cap'.checks # cap.checks =>
       LET t == cap'.now
           size == cap.totalSamples >= minSamples
           gap == t - cap.lastTranscriptionTime >= MinGapMs
           act == cap.activeAt >= 0 /\ t - cap.activeAt <= ActivityWindowMs
       IN /\ cap'.submitted # cap.submitted => (~cap.isSpeaking /\ size /\ gap /\ act)
          /\ (~cap.isSpeaking /\ size /\ gap /\ ~act) =>
               /\ cap'.discarded = cap.discarded + 1
               /\ cap'.totalSamples = 0
               /\ cap'.submitted = cap.submitted
          /\ (cap.isSpeaking \/ ~size \/ ~gap) =>
               /\ cap'.totalSamples = cap.totalSamples
               /\ cap'.submitted = cap.submitted
               /\ cap'.discarded = cap.discarded]_vars

\* C24: while a call of __triggerBotResponse is in progress isSpeaking is set,
\* and isSpeaking is cleared only when the 10s cool-down of every response
\* that has completed is over.
C24_FlagHeldThroughResponse ==
  /\ [](Responding(cap) > 0 => cap.isSpeaking)
  /\ [][(cap.isSpeaking /\ ~cap'.isSpeaking) =>
          /\ Responding(cap') = 0
          /\ \A d \in cap.cooldowns : cap'.now >= d]_vars

\* C25: __triggerBotResponse is called only with text whose trimmed length is
\* more than 2, whichever strategy produced it.
C25_TriggerOnlyLongText == cap.triggerLen # -1 => cap.triggerLen > 2

\* C26: once stopTheRecording has run no call of __triggerBotResponse is
\* started: what a transcription in flight returns is dropped.
C26_NoResponseAfterStop ==
  [][cap.stopped => (cap'.respBatch <= cap.respBatch /\ cap'.respMic <= cap.respMic)]_vars

\* C27: the attempts to capture remote audio are 5s apart and at most
\* maxRetries; microphone recognition is started once, by the failure of the
\* last of them, and never after an attempt has succeeded; the submission
\* timer and microphone recognition are never both started.
C27_FallbackAfterTenFailures ==
  /\ [](cap.strategy = "locating" =>
          /\ cap.retryCount < maxRetries
          /\ cap.attemptAt = (cap.retryCount + 1) * RetryCaptureMs
          /\ cap.micStarts = 0
          /\ cap.intervalStarts = 0)
  /\ [](cap.micStarts + cap.intervalStarts <= 1)
  /\ [](cap.strategy = "mic" <=> cap.micStarts = 1)
  /\ [](cap.strategy = "remote" <=> cap.intervalStarts = 1)
  /\ [][cap'.micStarts # cap.micStarts =>
          /\ cap.strategy = "locating"
          /\ cap.retryCount = maxRetries - 1]_vars
  /\ [][cap'.intervalStarts # cap.intervalStarts => cap.strategy = "locating"]_vars

\* microphone recognition has been started and has produced a response
C27_Witness ==
  /\ cap.strategy = "mic"
  /\ cap.micStarts = 1
  /\ cap.intervalStarts = 0
  /\ cap.respMic = 1

\* C28: speakInMeeting switches the microphone off and on again only after
\* its attempt to put the track into an existing sender, and only when that
\* attempt found no sender.
C28_ToggleOnlyWithoutTransport ==
  \A i \in 1..Len(speak.steps) :
     speak.steps[i] = "toggleOff" =>
       /\ ~speak.audioReplaced
       /\ \E j \in 1..(i - 1) : speak.steps[j] = "replaceTrack"

\* C29: when join has thrown, a live connection that was open has been closed,
\* or its finish() threw and was logged; closeLiveConnection was called before
\* the report; and whatever the close did, the history was reported, the
\* handler of the error called and the error of joinMeeting thrown.
C29_ConnectionClosedOnError ==
  pc = "threw" =>
    /\ deepgram.conn = "open" => deepgram.finishErrors = 1
    /\ deepgram.id => deepgram.reportsAtClose = Len(reported) - 1
    /\ thrown = error
    /\ error # NoError
    /\ Len(reported) = 1
    /\ reported[1] = state
    /\ handlers = HandlersFor(error)

\* join has thrown after the recording was set up, and the connection that
\* was open is closed
C29_Witness ==
  /\ pc = "threw"
  /\ deepgram.conn = "closed"
  /\ deepgram.finishErrors = 0
  /\ deepgram.reportsAtClose = 0
  /\ Len(reported) = 1

\* C30: whatever the provider does, generateResponse returns a text that is
\* not empty: the trimmed content when there is one, the canned text when the
\* content is missing or blank or the request throws; and __triggerBotResponse
\* passes that one text, and nothing else, to speakInMeeting.
C30_ResponseNeverEmpty ==
  /\ respond.pc \in {"speak", "done"} =>
       /\ respond.text # <<>>
       /\ respond.provider.kind \in {"missing", "throws", "noService"} =>
            respond.text = Canned
       /\ respond.provider.kind = "content" =>
            LET kept == SelectSeq(respond.provider.content, LAMBDA ch : ch # " ")
            IN IF kept = <<>> THEN respond.text = Canned
               ELSE /\ Head(respond.text) # " "
                    /\ respond.text[Len(respond.text)] # " "
                    /\ SelectSeq(respond.text, LAMBDA ch : ch # " ") = kept
                    /\ \E i \in 1..Len(respond.provider.content) :
                         SubSeq(respond.provider.content, i, i + Len(respond.text) - 1)
                           = respond.text
  /\ respond.pc = "done" => respond.spoken = <<respond.text>>

\* the provider answered with blanks only and the canned text was spoken
C30_Witness ==
  /\ respond.pc = "done"
  /\ respond.provider.kind = "content"
  /\ respond.provider.content = <<" ", " ">>
  /\ respond.spoken = <<Canned>>

\* C31: the chunk that the recorder emits when it is stopped has been handed
\* to the uploader before the browser is closed and the upload is started.
C31_LastChunkSavedBeforeUpload ==
  pc \in {"upload", "report", "returned"} => rec.lastChunk # "pending"

\* C32: when join has returned or thrown, the browser is closed.
C32_BrowserClosedAtExit ==
  pc \in {"returned", "threw"} => ~browserOpen

\* C33: when join has returned, no live connection of the session is left
\* open in the speech-to-text service.
C33_ConnectionClosedOnReturn ==
  pc = "returned" => deepgram.conn # "open"

\* C34: a submission check submits only when no earlier submission is still
\* in flight, and none of the samples it submits has been submitted before.
C34_NoSampleSubmittedTwice ==
  [][cap'.submitted # cap.submitted =>
       /\ cap.pending = 0
       /\ cap.sentSamples = 0]_vars

\* C35: the chunks saved are those of the calls made with the bot's own id,
\* in their order, and the wait is over exactly when screenAppMeetEnd has been
\* called with that id: calls with another id change nothing.
C35_ForeignIdHasNoEffect ==
  /\ [](bridge.saved = bridge.ownSent)
  /\ [](bridge.waitingPromise = "resolved" <=> bridge.ownEnds > 0)
  /\ [][bridge'.foreign # bridge.foreign =>
          /\ bridge'.saved = bridge.saved
          /\ bridge'.waitingPromise = bridge.waitingPromise]_vars

\* calls with another id came between two saved chunks and before the end
C35_Witness ==
  /\ bridge.foreign >= 2
  /\ Len(bridge.saved) = 1
  /\ bridge.waitingPromise = "resolved"

\* the page is not a valid meeting page
C36_Invalid(page) ==
  \/ ~page.url
  \/ page.removed
  \/ page.notAdmitted
  \/ ~page.people /\ ~page.leave
  \/ page.throws

\* C36: a run of the page-validity check calls stopTheRecording exactly when
\* the page it looks at is off the meeting host, shows the removed or the
\* not-admitted text, has neither baseline button, or cannot be read; after a
\* run that called it the interval is cleared and no further run happens.
C36_StopsAtFirstInvalidPage ==
  /\ [][validity'.runs # validity.runs =>
          (rec'.stopCalls = rec.stopCalls + 1 <=> C36_Invalid(validity'.page))
          /\ (rec'.stopCalls = rec.stopCalls <=> ~C36_Invalid(validity'.page))]_vars
  /\ [](validity.stops > 0 =>
          /\ validity.stops = 1
          /\ ~rec.isOnValidGoogleMeetPageInterval
          /\ C36_Invalid(validity.page))
  /\ [][validity.stops > 0 => validity'.runs = validity.runs]_vars

\* two runs on a valid page, then a run on a page that shows the removed text
C36_Witness ==
  /\ validity.runs = 3
  /\ validity.stops = 1
  /\ validity.page.url /\ validity.page.removed /\ validity.page.leave /\ ~validity.page.throws
  /\ rec.capStops = 0

\* C37: the loop over the "Got it" buttons ends, whatever numbers of visible
\* buttons the page returns.
C37_GotItLoopEnds ==
  <>(gotIt.pc = "done")

\* C38: while a call of speakInMeeting holds a source it created and has not
\* yet played, the stored source is its own; a call starts no source but its
\* own; and a call that got as far as playback has started its own source.
C38_EachCallPlaysItsOwnAudio ==
  \A c \in SpeakCalls :
    /\ tts.call[c].pc = "created" => tts.ttsAudioSource = c
    /\ tts.call[c].used \in {0, c}
    /\ (tts.call[c].pc = "done" /\ c \in tts.started) => tts.call[c].used = c

\* the place of a format in the fixed order
C39_Rank(f) ==
  CASE f = "wav" -> 1 [] f = "opus" -> 2 [] f = "webm" -> 3 [] f = "auto" -> 4

\* C39: the formats are tried in the order WAV, WebM/Opus, WebM, auto-detect,
\* WAV exactly when the buffer starts with "RIFF"; nothing is tried after an
\* attempt gave a response; transcribe throws exactly when the auto-detect
\* attempt threw, and then the call site answers unsuccessful and empty; a
\* response with an error, without result, results or first result, or with a
\* blank transcript gives the empty transcript.
C39_TranscribeOrderAndErrors ==
  /\ [](\A i, j \in 1..Len(stt.tried) :
          i < j => C39_Rank(stt.tried[i]) < C39_Rank(stt.tried[j]))
  /\ [](stt.tried # <<>> =>
          (stt.tried[1] = "wav" <=>
             /\ Len(stt.audioBuffer) >= 4
             /\ SubSeq(stt.audioBuffer, 1, 4) = <<82, 73, 70, 70>>))
  /\ [](stt.tried # <<>> => stt.tried[1] \in {"wav", "opus"})
  /\ [][stt.response.kind # "none" => stt'.tried = stt.tried]_vars
  /\ [](stt.transcribed = "threw" <=>
          /\ stt.tried # <<>>
          /\ stt.tried[Len(stt.tried)] = "auto"
          /\ stt.last = "throws")
  /\ [](stt.transcribed = "threw" =>
          stt.result = [success |-> FALSE, transcript |-> <<>>])
  /\ []((stt.pc = "done" /\ stt.response.kind # "none") =>
          /\ stt.result.success
          /\ stt.result.transcript =
               (IF /\ stt.response.kind = "transcript"
                   /\ \E i \in 1..Len(stt.response.transcript) :
                        stt.response.transcript[i] # " "
                  THEN stt.response.transcript
                  ELSE <<>>))

\* every format was tried on a RIFF buffer and the last attempt threw
C39_Witness ==
  /\ stt.tried = <<"wav", "opus", "webm", "auto">>
  /\ stt.transcribed = "threw"
  /\ stt.pc = "done"

\* the connection created last under the id (0: none)
C40_Latest(id) ==
  LET made == {i \in 1..Len(live.connections) : live.connections[i].id = id}
  IN IF made = {} THEN 0 ELSE CHOOSE i \in made : \A j \in made : j <= i

\* C40: the registry holds an entry for an id exactly when the connection
\* created last under that id has not closed and closeLiveConnection was not
\* called on it, and the entry is that connection.
C40_RegistryHoldsLatestLive ==
  \A id \in ConnectionIds :
    LET latest == C40_Latest(id)
    IN /\ live.liveConnections[id] \in {0, latest}
       /\ live.liveConnections[id] # 0 <=>
            /\ latest # 0
            /\ live.connections[latest].state # "closed"
            /\ ~live.connections[latest].closeCalled

====
